---- MODULE Spec2Model ----
(***************************************************************************)
(* FSM storage subsystem of kurigram-addons (pyrogram_patch.fsm): the      *)
(* in-memory, Redis and MongoDB backends behind the BaseStorage contract.  *)
(*                                                                         *)
(* Conventions                                                             *)
(*   - a Python str that may hold ':' is a sequence of its ':'-separated   *)
(*     segments ("bot:fsm:meta:k1" is <<"bot","fsm","meta","k1">>);        *)
(*   - a str value stored in a data mapping is the natural number n,       *)
(*     standing for the n-character string "x" * n;                        *)
(*   - a data mapping is a function from a subset of Fields to values;     *)
(*   - a datetime is a natural number of seconds, a timedelta likewise;    *)
(*     Python None is NoneTime where a datetime or timedelta stands, and   *)
(*     NoneStr where a str stands;                                         *)
(*   - a store is a function whose domain is the set of keys it holds.     *)
(***************************************************************************)
EXTENDS Integers, Sequences, FiniteSets, TLC

VARIABLES
    backend,      \* which BaseStorage implementation the application built
    now,          \* the clock (datetime.now)
    storage,      \* MemoryStorage._storage: key -> StateData
    mem_lock,     \* MemoryStorage._lock: "free", or "stuck" once a holder waits on it
    key_prefix,   \* RedisStorage._key_prefix (a sequence of segments, <<>> for "")
    redis,        \* the Redis keyspace: redis key -> [type, val, ttl_at]
    mongo,        \* the MongoDB collection: key -> document
    last,         \* the latest call: [op, key, arg, out, exc, val]
    pc,           \* per task: where its call in progress stands, and its locals
    handle,       \* the State instance the tasks share: [key, name, lock]
    mm,           \* MiddlewareManager._middlewares: handler type -> middlewares
    pool,         \* global_pool: [update_pool, middlewares, outer_middlewares, fsm_storage]
    helpers,      \* the PatchHelper objects alive: id -> [data, state]
    disp          \* the PatchedDispatcher: [is_running, tasks, updates_queue, stop]

vars == <<backend, now, storage, mem_lock, key_prefix, redis, mongo, last, pc,
          handle, mm, pool, helpers, disp>>

(***************************************************************************)
(* Bounds and inputs                                                       *)
(***************************************************************************)
MaxTime == 2
MaxTTL == 1

NoneTime == -1
NoneStr == "None"
\* None as a call's result
None == [none |-> TRUE]

MAX_DATA_SIZE == 1048576

Keys == {<<"k1">>, <<"k2">>}
Tasks == {"t1", "t2"}
EmptyKey == <<"">>
StateNames == {"a", "b"}
Fields == {"f", "g"}
KeyPrefixes == {<<>>, <<"bot">>}
Backends == {"memory", "redis", "mongo"}

\* The longest value that keeps {'g': value} within MAX_DATA_SIZE:
\* len("{'g': '") + n + len("'}") = n + 9.
BigValue == MAX_DATA_SIZE - 9

EmptyDict == <<>>
ValidDicts == {EmptyDict, "f" :> 1, "g" :> BigValue}
OversizedDicts == {"g" :> (BigValue + 1)}

\* What a caller may pass as `data`: a dict, or something that is not one.
Dict(d) == [kind |-> "dict", items |-> d]
NotADict == [kind |-> "list", items |-> <<>>]
DataArgs == {Dict(d) : d \in ValidDicts \cup OversizedDicts} \cup {NotADict}

\* What a caller may pass as `state`: a name, or the empty string.
StateArgs == StateNames \cup {""}
\* What a caller may pass as `default_state`.
DefaultStateArgs == StateNames \cup {NoneStr}
\* What a caller may pass as `ttl`.
TTLArgs == {NoneTime} \cup (1..MaxTTL)

(***************************************************************************)
(* Results of a call                                                       *)
(***************************************************************************)
Return(v) == [out |-> "return", exc |-> "", val |-> v]
Raise(e) == [out |-> "raise", exc |-> e, val |-> <<>>]
\* The call never completes: its task waits forever.
Hang == [out |-> "hang", exc |-> "", val |-> <<>>]

Call(op, key, arg, res) ==
    [op |-> op, key |-> key, arg |-> arg,
     out |-> res.out, exc |-> res.exc, val |-> res.val]

\* The handle get_or_create_state returns: State(name, storage, key).
State(name, key) == [name |-> name, key |-> key]

Remove(store, key) == [k \in (DOMAIN store) \ {key} |-> store[k]]
Put(store, key, v) == (key :> v) @@ store

(***************************************************************************)
(* Serialized sizes                                                        *)
(***************************************************************************)
StrLen(field) == 1

RECURSIVE ItemsLen(_, _)
ItemsLen(d, fs) ==
    IF fs = {} THEN 0
    ELSE LET f == CHOOSE x \in fs : TRUE
         IN  (StrLen(f) + 2) + 2 + (d[f] + 2) + ItemsLen(d, fs \ {f})

\* len(str(data).encode('utf-8')): "{" items joined by ", " "}"
StrSize(d) ==
    LET n == Cardinality(DOMAIN d)
    IN  2 + ItemsLen(d, DOMAIN d) + (IF n = 0 THEN 0 ELSE 2 * (n - 1))

\* A size that counts the braces only.
JsonSize_BracesOnly(d) == 2

\* len(json.dumps(data).encode('utf-8')): the same layout with double quotes
JsonSize(d) ==
    LET n == Cardinality(DOMAIN d)
    IN  2 + ItemsLen(d, DOMAIN d) + (IF n = 0 THEN 0 ELSE 2 * (n - 1))

(***************************************************************************)
(* MemoryStorage                                                           *)
(***************************************************************************)
StateData(state, data, created_at, updated_at, expires_at) ==
    [state |-> state, data |-> data, created_at |-> created_at,
     updated_at |-> updated_at, expires_at |-> expires_at]

\* `state_data.expires_at and datetime.now(timezone.utc) >= state_data.expires_at`
Mem_expired(rec, t) == rec.expires_at # NoneTime /\ t >= rec.expires_at

\* A result of a MemoryStorage method: the call's outcome, and the storage
\* and the lock as it leaves them.
MemRes(res, st, lock) == [res |-> res, storage |-> st, lock |-> lock]

\* _check_expired(key) as called by a method that holds self._lock:
\* "absent", "live", or "deadlock" (finish_state waits for the lock its
\* caller holds; asyncio.Lock is not reentrant).
Mem_check_expired(st, key, t) ==
    IF key \notin DOMAIN st THEN "absent"
    ELSE IF Mem_expired(st[key], t) THEN "deadlock"
    ELSE "live"

\* `async with self._lock:` when the lock is never released again.
MemBlocked(st) == MemRes(Hang, st, "stuck")

Mem_get_or_create_state(st, lock, key, default_state, ttl, t) ==
    IF key = EmptyKey THEN MemRes(Raise("StateValidationError"), st, lock)
    ELSE IF lock # "free" THEN MemBlocked(st)
    ELSE IF key \in DOMAIN st /\ Mem_check_expired(st, key, t) = "deadlock"
         THEN MemBlocked(st)
    ELSE IF key \in DOMAIN st
         THEN MemRes(Return(State(st[key].state, key)), st, lock)
    ELSE LET state == IF default_state \in {NoneStr, ""} THEN "*" ELSE default_state
             expires_at == IF ttl # NoneTime /\ ttl # 0 THEN t + ttl ELSE NoneTime
         IN  MemRes(Return(State(state, key)),
                    Put(st, key, StateData(state, EmptyDict, t, t, expires_at)),
                    lock)

\* get_state(key, raise_on_not_found=False): no lock, no expiry check.
Mem_get_state(st, key) ==
    IF key \in DOMAIN st THEN Return(st[key]) ELSE Return(None)

\* A set_state that would store a copy of the caller's dict, a new object.
Mem_set_state_Copy(st, lock, arg1, arg2, ttl, t) ==
    IF lock # "free" THEN MemBlocked(st)
    ELSE LET sd == arg2.value
             id == IF arg1 \in DOMAIN st THEN st[arg1].data.id + 1 ELSE 0
         IN  MemRes(Return(None),
                    Put(st, arg1, StateData(sd.state,
                                            [id |-> id, items |-> sd.data.items],
                                            sd.created_at, t, sd.expires_at)),
                    lock)

\* set_state(key, state_data). The contract's call set_state(state, key)
\* binds a str to state_data; with ttl passed there is no such parameter.
Mem_set_state(st, lock, arg1, arg2, ttl, t) ==
    IF ttl # NoneTime THEN MemRes(Raise("TypeError"), st, lock)
    ELSE IF arg2.kind # "StateData" THEN MemRes(Raise("ValueError"), st, lock)
    ELSE IF lock # "free" THEN MemBlocked(st)
    ELSE LET sd == arg2.value
             created_at == IF sd.created_at = NoneTime THEN t ELSE sd.created_at
         IN  MemRes(Return(None),
                    Put(st, arg1, StateData(sd.state, sd.data, created_at, t,
                                            sd.expires_at)),
                    lock)

Mem_set_data(st, lock, data, key, ttl, t) ==
    IF data.kind # "dict" THEN MemRes(Raise("StateValidationError"), st, lock)
    ELSE IF StrSize(data.items) > MAX_DATA_SIZE
         THEN MemRes(Raise("StateValidationError"), st, lock)
    ELSE IF lock # "free" THEN MemBlocked(st)
    ELSE LET expires_at == IF ttl # NoneTime /\ ttl # 0 THEN t + ttl ELSE NoneTime
             rec == IF key \in DOMAIN st
                    THEN StateData(st[key].state, data.items, st[key].created_at,
                                   t, expires_at)
                    ELSE StateData("*", data.items, t, t, expires_at)
         IN  MemRes(Return(None), Put(st, key, rec), lock)

Mem_get_data(st, lock, key, t) ==
    IF lock # "free" THEN MemBlocked(st)
    ELSE CASE Mem_check_expired(st, key, t) = "deadlock" -> MemBlocked(st)
           [] Mem_check_expired(st, key, t) = "absent" ->
                  MemRes(Return(EmptyDict), st, lock)
           [] OTHER -> MemRes(Return(st[key].data), st, lock)

Mem_get_state_data(st, lock, key, t) ==
    IF lock # "free" THEN MemBlocked(st)
    ELSE CASE Mem_check_expired(st, key, t) = "deadlock" -> MemBlocked(st)
           [] Mem_check_expired(st, key, t) = "absent" ->
                  MemRes(Raise("StateNotFoundError"), st, lock)
           [] OTHER -> MemRes(Return(st[key]), st, lock)

Mem_finish_state(st, lock, key) ==
    IF lock # "free" THEN MemBlocked(st)
    ELSE MemRes(Return(None), Remove(st, key), lock)

\* cleanup_expired(): the first expired key deadlocks in _check_expired;
\* with none expired the second loop reads the undefined name `keys`.
Mem_cleanup_expired(st, lock, t) ==
    IF lock # "free" THEN MemBlocked(st)
    ELSE IF \E k \in DOMAIN st : Mem_expired(st[k], t) THEN MemBlocked(st)
    ELSE MemRes(Raise("NameError"), st, lock)

(***************************************************************************)
(* RedisStorage                                                            *)
(***************************************************************************)
DATA_PREFIX == <<"fsm", "data">>
META_PREFIX == <<"fsm", "meta">>

\* _key(prefix, key): f"{prefix}:{key}"
RedisKey(prefix, key) == prefix \o key

\* A _get_key that leaves the conversation's key out.
Redis_get_key_NoKey(kp, prefix, key) ==
    IF kp # <<>> THEN kp \o prefix ELSE prefix

\* RedisStorage._get_key(prefix, key)
Redis_get_key(kp, prefix, key) ==
    RedisKey(IF kp # <<>> THEN kp \o prefix ELSE prefix, key)

\* datetime.isoformat() and datetime.fromisoformat()
IsoFormat(t) == <<"iso", t>>
FromIsoFormat(s) == s[2]

\* json.dumps(data) and json.loads(text): the items in field order.
FieldOrder == <<"f", "g">>
JsonDumps(d) ==
    LET pick(i) == IF FieldOrder[i] \in DOMAIN d
                   THEN <<<<FieldOrder[i], d[FieldOrder[i]]>>>> ELSE <<>>
    IN  <<"json">> \o pick(1) \o pick(2)
JsonLoads(text) ==
    LET items == Tail(text)
    IN  [f \in {items[i][1] : i \in DOMAIN items} |->
            LET i == CHOOSE j \in DOMAIN items : items[j][1] = f IN items[i][2]]

\* The Redis commands the backend issues, on the keyspace rk.
HGETALL(rk, k) == IF k \in DOMAIN rk THEN rk[k].val ELSE <<>>
HGET(rk, k, field) ==
    IF k \in DOMAIN rk /\ field \in DOMAIN rk[k].val THEN rk[k].val[field] ELSE <<>>
GET(rk, k) == IF k \in DOMAIN rk THEN rk[k].val ELSE <<>>
\* HSET keeps the fields it does not name, and the key's expiry.
HSET(rk, k, mapping) ==
    IF k \in DOMAIN rk
    THEN Put(rk, k, [rk[k] EXCEPT !.val = mapping @@ rk[k].val])
    ELSE Put(rk, k, [type |-> "hash", val |-> mapping, ttl_at |-> NoneTime])
\* SET replaces the value and clears the key's expiry.
SET(rk, k, v) == Put(rk, k, [type |-> "string", val |-> v, ttl_at |-> NoneTime])
DEL(rk, k) == Remove(rk, k)
\* EXPIRE key seconds: a key that does not exist is left alone, and a
\* timeout that is not positive deletes the key.
EXPIRE(rk, k, seconds, t) ==
    IF k \notin DOMAIN rk THEN rk
    ELSE IF seconds <= 0 THEN Remove(rk, k)
    ELSE Put(rk, k, [rk[k] EXCEPT !.ttl_at = t + seconds])
\* Redis removes a key once its expiry is reached.
RedisPurge(rk, t) ==
    [k \in {x \in DOMAIN rk : rk[x].ttl_at = NoneTime \/ rk[x].ttl_at > t} |-> rk[k]]

RedisRes(res, rk) == [res |-> res, redis |-> rk]

\* _get_state_meta(key): <<state, created_at, updated_at, expires_at>>
Redis_get_state_meta(rk, kp, key) ==
    LET meta == HGETALL(rk, Redis_get_key(kp, META_PREFIX, key))
        get_value(field) == IF field \in DOMAIN meta THEN meta[field] ELSE <<>>
        parse(s) == IF s # <<>> THEN FromIsoFormat(s) ELSE NoneTime
    IN  IF meta = <<>> THEN Raise("StateNotFoundError")
        ELSE IF get_value("state") \in {<<>>, ""}
                \/ get_value("created_at") = <<>>
                \/ get_value("updated_at") = <<>>
             \* `raise StateCorruptedError(...)`: the name is not defined
             THEN Raise("NameError")
        ELSE Return(<<get_value("state"), parse(get_value("created_at")),
                      parse(get_value("updated_at")), parse(get_value("expires_at"))>>)

\* The mapping _set_state_meta writes, given the created_at it read.
RedisMetaMapping(state, created_at, ttl, t) ==
    LET base == [state |-> state,
                 created_at |-> IF created_at = <<>> THEN IsoFormat(t) ELSE created_at,
                 updated_at |-> IsoFormat(t)]
    IN  IF ttl # NoneTime /\ ttl # 0
        THEN ("expires_at" :> IsoFormat(t + ttl)) @@ base
        ELSE base

\* The pipeline of _set_state_meta: hset, and expire `if ttl`.
Redis_set_state_meta_execute(rk, kp, key, state, created_at, ttl, t) ==
    LET meta_key == Redis_get_key(kp, META_PREFIX, key)
        written == HSET(rk, meta_key, RedisMetaMapping(state, created_at, ttl, t))
    IN  IF ttl # NoneTime /\ ttl # 0 THEN EXPIRE(written, meta_key, ttl, t) ELSE written

\* _set_state_meta(key, state, ttl) run without another task in between.
Redis_set_state_meta(rk, kp, key, state, ttl, t) ==
    Redis_set_state_meta_execute(
        rk, kp, key, state,
        HGET(rk, Redis_get_key(kp, META_PREFIX, key), "created_at"), ttl, t)

Redis_get_or_create_state(rk, kp, key, default_state, ttl, t) ==
    IF key = EmptyKey THEN RedisRes(Raise("StateValidationError"), rk)
    ELSE LET meta == Redis_get_state_meta(rk, kp, key)
             state == IF default_state \in {NoneStr, ""} THEN "*" ELSE default_state
         IN  IF meta.out = "return" THEN RedisRes(Return(State(meta.val[1], key)), rk)
             ELSE IF meta.exc = "StateNotFoundError"
                  THEN RedisRes(Return(State(state, key)),
                                Redis_set_state_meta(rk, kp, key, state, ttl, t))
             ELSE RedisRes(meta, rk)

Redis_set_state(rk, kp, state, key, ttl, t) ==
    IF state = "" THEN RedisRes(Raise("StateValidationError"), rk)
    ELSE RedisRes(Return(None), Redis_set_state_meta(rk, kp, key, state, ttl, t))

\* The pipeline of set_data: set (and expire `if ttl`), or delete for {}.
Redis_set_data_execute(rk, kp, data, key, ttl, t) ==
    LET data_key == Redis_get_key(kp, DATA_PREFIX, key)
    IN  IF data # EmptyDict
        THEN LET written == SET(rk, data_key, JsonDumps(data))
             IN  IF ttl # NoneTime /\ ttl # 0
                 THEN EXPIRE(written, data_key, ttl, t) ELSE written
        ELSE DEL(rk, data_key)

Redis_set_data(rk, kp, data, key, ttl, t) ==
    IF data.kind # "dict" THEN RedisRes(Raise("StateValidationError"), rk)
    ELSE IF JsonSize(data.items) > MAX_DATA_SIZE
         THEN RedisRes(Raise("StateValidationError"), rk)
    ELSE LET written == Redis_set_data_execute(rk, kp, data.items, key, ttl, t)
             meta == Redis_get_state_meta(written, kp, key)
         IN  IF ttl = NoneTime THEN RedisRes(Return(None), written)
             ELSE IF meta.out = "raise" THEN RedisRes(meta, written)
             ELSE RedisRes(Return(None),
                           Redis_set_state_meta(written, kp, key, meta.val[1], ttl, t))

Redis_get_data(rk, kp, key) ==
    LET data == GET(rk, Redis_get_key(kp, DATA_PREFIX, key))
    IN  Return(IF data # <<>> THEN JsonLoads(data) ELSE EmptyDict)

Redis_get_state_data(rk, kp, key) ==
    LET meta == Redis_get_state_meta(rk, kp, key)
    IN  IF meta.out = "raise"
        THEN (IF meta.exc = "StateNotFoundError" THEN meta ELSE Raise("StorageError"))
        ELSE Return(StateData(meta.val[1], Redis_get_data(rk, kp, key).val,
                              meta.val[2], meta.val[3], meta.val[4]))

Redis_finish_state(rk, kp, key) ==
    RedisRes(Return(None),
             DEL(DEL(rk, Redis_get_key(kp, META_PREFIX, key)),
                 Redis_get_key(kp, DATA_PREFIX, key)))

Redis_cleanup_expired == Return([count |-> 0])

(***************************************************************************)
(* MongoStorage                                                            *)
(***************************************************************************)
MongoRes(res, coll) == [res |-> res, mongo |-> coll]

\* `datetime.now(datetime.timezone.utc)` where `datetime` is the class
\* imported by `from datetime import datetime, timedelta`: the class has no
\* attribute `timezone`.
Mongo_now(t) == Raise("AttributeError")

\* _get_state_document(key)
Mongo_get_state_document(coll, key, t) ==
    IF key \notin DOMAIN coll THEN MongoRes(Raise("StateNotFoundError"), coll)
    ELSE IF "expires_at" \in DOMAIN coll[key] /\ coll[key].expires_at # NoneTime
         THEN (IF Mongo_now(t).out = "raise" THEN MongoRes(Mongo_now(t), coll)
               ELSE IF coll[key].expires_at < Mongo_now(t).val
                    \* finish_state(key), then StateNotFoundError
                    THEN MongoRes(Raise("StateNotFoundError"), Remove(coll, key))
               ELSE MongoRes(Return(coll[key]), coll))
    ELSE MongoRes(Return(coll[key]), coll)

Mongo_get_or_create_state(coll, key, default_state, ttl, t) ==
    IF key = EmptyKey THEN MongoRes(Raise("StateValidationError"), coll)
    ELSE LET got == Mongo_get_state_document(coll, key, t)
             state == IF default_state \in {NoneStr, ""} THEN "*" ELSE default_state
         IN  IF got.res.out = "return"
             THEN (IF "state" \in DOMAIN got.res.val
                   THEN MongoRes(Return(State(got.res.val.state, key)), coll)
                   ELSE MongoRes(Raise("KeyError"), coll))
             ELSE IF got.res.exc # "StateNotFoundError" THEN got
             ELSE IF Mongo_now(t).out = "raise" THEN MongoRes(Mongo_now(t), got.mongo)
             ELSE MongoRes(Return(State(state, key)),
                           Put(got.mongo, key,
                               [key |-> key, state |-> state, data |-> EmptyDict,
                                created_at |-> Mongo_now(t).val,
                                updated_at |-> Mongo_now(t).val,
                                expires_at |-> IF ttl # NoneTime /\ ttl # 0
                                               THEN Mongo_now(t).val + ttl
                                               ELSE NoneTime]))

\* update_one({'key': key}, {'$set': fields}, upsert=...)
Mongo_update_one(coll, key, fields, upsert) ==
    IF key \in DOMAIN coll THEN Put(coll, key, fields @@ coll[key])
    ELSE IF upsert THEN Put(coll, key, fields @@ [key |-> key])
    ELSE coll

Mongo_set_state(coll, state, key, ttl, t) ==
    IF state = "" THEN MongoRes(Raise("StateValidationError"), coll)
    ELSE IF Mongo_now(t).out = "raise" THEN MongoRes(Mongo_now(t), coll)
    ELSE LET n == Mongo_now(t).val
             set == IF ttl # NoneTime
                    THEN [state |-> state, updated_at |-> n, expires_at |-> n + ttl]
                    ELSE [state |-> state, updated_at |-> n]
         IN  MongoRes(Return(None), Mongo_update_one(coll, key, set, TRUE))

Mongo_set_data(coll, data, key, ttl, t) ==
    IF data.kind # "dict" THEN MongoRes(Raise("StateValidationError"), coll)
    ELSE IF StrSize(data.items) > MAX_DATA_SIZE
         THEN MongoRes(Raise("StateValidationError"), coll)
    ELSE IF Mongo_now(t).out = "raise" THEN MongoRes(Mongo_now(t), coll)
    ELSE LET n == Mongo_now(t).val
             set == IF ttl # NoneTime
                    THEN [data |-> data.items, updated_at |-> n, expires_at |-> n + ttl]
                    ELSE [data |-> data.items, updated_at |-> n]
         IN  IF key \in DOMAIN coll
             THEN MongoRes(Return(None), Mongo_update_one(coll, key, set, FALSE))
             ELSE MongoRes(Raise("StateNotFoundError"), coll)

Mongo_get_data(coll, key, t) ==
    LET got == Mongo_get_state_document(coll, key, t)
    IN  IF got.res.out = "return"
        THEN MongoRes(Return(IF "data" \in DOMAIN got.res.val
                             THEN got.res.val.data ELSE EmptyDict), got.mongo)
        ELSE IF got.res.exc = "StateNotFoundError"
             THEN MongoRes(Return(EmptyDict), got.mongo)
        ELSE got

Mongo_get_state_data(coll, key, t) ==
    LET got == Mongo_get_state_document(coll, key, t)
        doc == got.res.val
    IN  IF got.res.out = "raise" THEN got
        ELSE IF {"state", "created_at", "updated_at"} \subseteq DOMAIN doc
             THEN MongoRes(Return(StateData(
                      doc.state,
                      IF "data" \in DOMAIN doc THEN doc.data ELSE EmptyDict,
                      doc.created_at, doc.updated_at,
                      IF "expires_at" \in DOMAIN doc THEN doc.expires_at ELSE NoneTime)),
                  got.mongo)
        \* KeyError, re-raised as StateValidationError
        ELSE MongoRes(Raise("StateValidationError"), got.mongo)

Mongo_finish_state(coll, key) ==
    IF key \in DOMAIN coll THEN MongoRes(Return(None), Remove(coll, key))
    ELSE MongoRes(Raise("StateNotFoundError"), coll)

Mongo_cleanup_expired(coll, t) ==
    IF Mongo_now(t).out = "raise" THEN MongoRes(Mongo_now(t), coll)
    ELSE LET gone == {k \in DOMAIN coll :
                         /\ "expires_at" \in DOMAIN coll[k]
                         /\ coll[k].expires_at # NoneTime
                         /\ coll[k].expires_at < Mongo_now(t).val}
         IN  MongoRes(Return([count |-> Cardinality(gone)]),
                      [k \in (DOMAIN coll) \ gone |-> coll[k]])

(***************************************************************************)
(* The calls of an application on its backend                              *)
(***************************************************************************)
MemStep(op, key, arg, r) ==
    /\ backend = "memory"
    /\ storage' = r.storage
    /\ mem_lock' = r.lock
    /\ last' = Call(op, key, arg, r.res)
    /\ UNCHANGED <<backend, now, key_prefix, redis, mongo, pc, handle,
         mm, pool, helpers, disp>>

RedisStep(op, key, arg, r) ==
    /\ backend = "redis"
    /\ redis' = r.redis
    /\ last' = Call(op, key, arg, r.res)
    /\ UNCHANGED <<backend, now, storage, mem_lock, key_prefix, mongo, pc, handle,
         mm, pool, helpers, disp>>

MongoStep(op, key, arg, r) ==
    /\ backend = "mongo"
    /\ mongo' = r.mongo
    /\ last' = Call(op, key, arg, r.res)
    /\ UNCHANGED <<backend, now, storage, mem_lock, key_prefix, redis, pc, handle,
         mm, pool, helpers, disp>>

\* The StateData objects a caller of MemoryStorage.set_state(key, state_data)
\* builds: a new one stamped now, or one that carries over the stored
\* record's created_at or expires_at.
StateDataArgs(key) ==
    {[kind |-> "StateData",
      value |-> StateData(s, d, c, now, e)] :
        s \in StateNames \cup {NoneStr},
        d \in {EmptyDict, "f" :> 1},
        c \in {now} \cup {storage[k].created_at : k \in {key} \cap DOMAIN storage},
        e \in {NoneTime} \cup {storage[k].expires_at : k \in {key} \cap DOMAIN storage}}

MemoryStorage_get_or_create_state(key, default_state, ttl) ==
    MemStep("get_or_create_state", key, [default_state |-> default_state, ttl |-> ttl],
            Mem_get_or_create_state(storage, mem_lock, key, default_state, ttl, now))

MemoryStorage_get_state(key) ==
    MemStep("get_state", key, None,
            MemRes(Mem_get_state(storage, key), storage, mem_lock))

\* set_state(key, state_data), the call the class defines
MemoryStorage_set_state(key, state_data) ==
    MemStep("set_state_data", key, [state_data |-> state_data.value],
            Mem_set_state(storage, mem_lock, key, state_data, NoneTime, now))

\* set_state(state, key, ttl), the call the BaseStorage contract defines
MemoryStorage_set_state_contract(state, key, ttl) ==
    MemStep("set_state", key, [state |-> state, ttl |-> ttl],
            Mem_set_state(storage, mem_lock, state,
                          [kind |-> "str", value |-> key], ttl, now))

MemoryStorage_set_data(data, key, ttl) ==
    MemStep("set_data", key, [data |-> data, ttl |-> ttl],
            Mem_set_data(storage, mem_lock, data, key, ttl, now))

MemoryStorage_get_data(key) ==
    MemStep("get_data", key, None, Mem_get_data(storage, mem_lock, key, now))

MemoryStorage_get_state_data(key) ==
    MemStep("get_state_data", key, None,
            Mem_get_state_data(storage, mem_lock, key, now))

MemoryStorage_finish_state(key) ==
    MemStep("finish_state", key, None, Mem_finish_state(storage, mem_lock, key))

MemoryStorage_cleanup_expired ==
    MemStep("cleanup_expired", <<>>, None,
            Mem_cleanup_expired(storage, mem_lock, now))

RedisStorage_get_or_create_state(key, default_state, ttl) ==
    RedisStep("get_or_create_state", key, [default_state |-> default_state, ttl |-> ttl],
              Redis_get_or_create_state(redis, key_prefix, key, default_state, ttl, now))

RedisStorage_set_state(state, key, ttl) ==
    RedisStep("set_state", key, [state |-> state, ttl |-> ttl],
              Redis_set_state(redis, key_prefix, state, key, ttl, now))

RedisStorage_set_data(data, key, ttl) ==
    RedisStep("set_data", key, [data |-> data, ttl |-> ttl],
              Redis_set_data(redis, key_prefix, data, key, ttl, now))

RedisStorage_get_data(key) ==
    RedisStep("get_data", key, None,
              RedisRes(Redis_get_data(redis, key_prefix, key), redis))

RedisStorage_get_state_data(key) ==
    RedisStep("get_state_data", key, None,
              RedisRes(Redis_get_state_data(redis, key_prefix, key), redis))

RedisStorage_finish_state(key) ==
    RedisStep("finish_state", key, None, Redis_finish_state(redis, key_prefix, key))

RedisStorage_cleanup_expired ==
    RedisStep("cleanup_expired", <<>>, None, RedisRes(Redis_cleanup_expired, redis))

MongoStorage_get_or_create_state(key, default_state, ttl) ==
    MongoStep("get_or_create_state", key, [default_state |-> default_state, ttl |-> ttl],
              Mongo_get_or_create_state(mongo, key, default_state, ttl, now))

MongoStorage_set_state(state, key, ttl) ==
    MongoStep("set_state", key, [state |-> state, ttl |-> ttl],
              Mongo_set_state(mongo, state, key, ttl, now))

MongoStorage_set_data(data, key, ttl) ==
    MongoStep("set_data", key, [data |-> data, ttl |-> ttl],
              Mongo_set_data(mongo, data, key, ttl, now))

MongoStorage_get_data(key) ==
    MongoStep("get_data", key, None, Mongo_get_data(mongo, key, now))

MongoStorage_get_state_data(key) ==
    MongoStep("get_state_data", key, None, Mongo_get_state_data(mongo, key, now))

MongoStorage_finish_state(key) ==
    MongoStep("finish_state", key, None, Mongo_finish_state(mongo, key))

MongoStorage_cleanup_expired ==
    MongoStep("cleanup_expired", <<>>, None, Mongo_cleanup_expired(mongo, now))

\* A task that is not inside a call.
Idle == [at |-> "idle"]

\* `State(name, storage, key)` with its `_lock = asyncio.Lock()`: the lock is
\* "free" or names the task that holds it. No instance exists yet.
NoHandle == [key |-> EmptyKey, name |-> "", lock |-> "free"]

\* PatchDataPool(): nothing pooled, no middleware, no FSM storage.
EmptyPool == [update_pool |-> <<>>, middlewares |-> <<>>, outer_middlewares |-> <<>>,
              fsm_storage |-> NoneStr]

\* PatchedDispatcher(client): not running, no worker task, and the empty
\* updates_queue of pyrogram's Dispatcher.  _tasks is kept as the number of
\* worker tasks at each point of _worker: "new" (created, not yet run),
\* "get" (in `await self.updates_queue.get()`), "process" (in
\* _process_packet).  A task that ends leaves _tasks (its done callback).
NewDispatcher ==
    [is_running |-> FALSE, tasks |-> [at \in {"new", "get", "process"} |-> 0],
     updates_queue |-> <<>>, stop |-> "idle"]

\* Time passes; Redis drops the keys whose expiry is reached.
Tick ==
    /\ now < MaxTime
    /\ now' = now + 1
    /\ redis' = RedisPurge(redis, now + 1)
    /\ last' = Call("tick", <<>>, None, Return(None))
    /\ UNCHANGED <<backend, storage, mem_lock, key_prefix, mongo, pc, handle,
         mm, pool, helpers, disp>>

Init ==
    /\ backend \in Backends
    /\ now = 0
    /\ storage = <<>>
    /\ mem_lock = "free"
    /\ key_prefix \in (IF backend = "redis" THEN KeyPrefixes ELSE {<<>>})
    /\ redis = <<>>
    /\ mongo = <<>>
    /\ last = Call("init", <<>>, None, Return(None))
    /\ pc = [t \in Tasks |-> Idle]
    /\ handle = NoHandle
    /\ mm = <<>>
    /\ pool = EmptyPool
    /\ helpers = <<>>
    /\ disp = NewDispatcher

\* The calls an application makes, with keys, states, data and TTLs drawn
\* from the given sets.
Calls(KeyArgs, DSArgs, SArgs, DArgs, TArgs, SDArgs) ==
    \/ \E key \in KeyArgs \cup {EmptyKey}, ds \in DSArgs, ttl \in TArgs :
          \/ MemoryStorage_get_or_create_state(key, ds, ttl)
          \/ RedisStorage_get_or_create_state(key, ds, ttl)
          \/ MongoStorage_get_or_create_state(key, ds, ttl)
    \/ \E key \in KeyArgs, state \in SArgs, ttl \in TArgs :
          \/ MemoryStorage_set_state_contract(state, key, ttl)
          \/ RedisStorage_set_state(state, key, ttl)
          \/ MongoStorage_set_state(state, key, ttl)
    \/ \E key \in KeyArgs, data \in DArgs, ttl \in TArgs :
          \/ MemoryStorage_set_data(data, key, ttl)
          \/ RedisStorage_set_data(data, key, ttl)
          \/ MongoStorage_set_data(data, key, ttl)
    \/ \E key \in KeyArgs :
          \/ \E sd \in SDArgs[key] : MemoryStorage_set_state(key, sd)
          \/ MemoryStorage_get_state(key)
          \/ MemoryStorage_get_data(key)
          \/ RedisStorage_get_data(key)
          \/ MongoStorage_get_data(key)
          \/ MemoryStorage_get_state_data(key)
          \/ RedisStorage_get_state_data(key)
          \/ MongoStorage_get_state_data(key)
          \/ MemoryStorage_finish_state(key)
          \/ RedisStorage_finish_state(key)
          \/ MongoStorage_finish_state(key)
    \/ MemoryStorage_cleanup_expired
    \/ RedisStorage_cleanup_expired
    \/ MongoStorage_cleanup_expired

\* One conversation, every kind of argument.
Next ==
    \/ Tick
    \/ Calls({<<"k1">>}, DefaultStateArgs, StateArgs, DataArgs, TTLArgs,
             [key \in Keys |-> StateDataArgs(key)])

Spec == Init /\ [][Next]_vars

\* Two conversations, a few kinds of argument.
NextIso ==
    \/ Tick
    \/ Calls(Keys, {NoneStr}, {"a"}, {Dict("f" :> 1)}, TTLArgs,
             [key \in Keys |-> {[kind |-> "StateData",
                            value |-> StateData("b", EmptyDict, now, now, NoneTime)]}])

SpecIso == Init /\ [][NextIso]_vars

(***************************************************************************)
(* RedisStorage.get_or_create_state, one Redis round trip at a time:       *)
(* every `await self._redis...` lets the other tasks run.                  *)
(***************************************************************************)
RaceStep(t, to) ==
    /\ pc' = [pc EXCEPT ![t] = to]
    /\ UNCHANGED <<backend, now, storage, mem_lock, key_prefix, mongo, last,
                 handle,
         mm, pool, helpers, disp>>

\* The call starts: `if not key: raise StateValidationError`.
Race_get_or_create_state(t, key, default_state, ttl) ==
    /\ pc[t].at = "idle"
    /\ UNCHANGED redis
    /\ RaceStep(t, [at |-> "get_state_meta", key |-> key,
                    default_state |-> default_state, ttl |-> ttl])

\* `state, _, _, _ = await self._get_state_meta(key)`
Race_get_state_meta(t) ==
    /\ pc[t].at = "get_state_meta"
    /\ UNCHANGED redis
    /\ LET meta == Redis_get_state_meta(redis, key_prefix, pc[t].key)
       IN  IF meta.out = "return"
           THEN RaceStep(t, [at |-> "done", key |-> pc[t].key,
                             res |-> Return(State(meta.val[1], pc[t].key))])
           ELSE IF meta.exc = "StateNotFoundError"
                THEN RaceStep(t, [pc[t] EXCEPT !.at = "hget"])
           ELSE RaceStep(t, [at |-> "done", key |-> pc[t].key, res |-> meta])

\* `created_at = await self._redis.hget(meta_key, 'created_at')`
Race_hget(t) ==
    /\ pc[t].at = "hget"
    /\ UNCHANGED redis
    /\ RaceStep(t, [at |-> "execute", key |-> pc[t].key,
                    default_state |-> pc[t].default_state, ttl |-> pc[t].ttl,
                    created_at |-> HGET(redis,
                                        Redis_get_key(key_prefix, META_PREFIX, pc[t].key),
                                        "created_at")])

\* `await pipe.execute()`, then `return State(state, self, key)`
Race_execute(t) ==
    /\ pc[t].at = "execute"
    /\ LET state == IF pc[t].default_state \in {NoneStr, ""}
                    THEN "*" ELSE pc[t].default_state
       IN  /\ redis' = Redis_set_state_meta_execute(
                           redis, key_prefix, pc[t].key, state,
                           pc[t].created_at, pc[t].ttl, now)
           /\ RaceStep(t, [at |-> "done", key |-> pc[t].key,
                           res |-> Return(State(state, pc[t].key))])

InitRace ==
    /\ Init
    /\ backend = "redis"

NextRace ==
    \E t \in Tasks :
        \/ \E key \in Keys, ds \in DefaultStateArgs, ttl \in TTLArgs :
              Race_get_or_create_state(t, key, ds, ttl)
        \/ Race_get_state_meta(t)
        \/ Race_hget(t)
        \/ Race_execute(t)

SpecRace == InitRace /\ [][NextRace]_vars

(***************************************************************************)
(* What a reader of the current state gets                                 *)
(***************************************************************************)
GetStateDataIn(b, st, lock, rk, coll, k) ==
    CASE b = "memory" -> Mem_get_state_data(st, lock, k, now).res
      [] b = "redis" -> Redis_get_state_data(rk, key_prefix, k)
      [] OTHER -> Mongo_get_state_data(coll, k, now).res

GetDataIn(b, st, lock, rk, coll, k) ==
    CASE b = "memory" -> Mem_get_data(st, lock, k, now).res
      [] b = "redis" -> Redis_get_data(rk, key_prefix, k)
      [] OTHER -> Mongo_get_data(coll, k, now).res

GetStateDataNow(k) == GetStateDataIn(backend, storage, mem_lock, redis, mongo, k)
GetDataNow(k) == GetDataIn(backend, storage, mem_lock, redis, mongo, k)

\* The three stores after a call of the contract on the current state.
SetStateIn(b, st, lock, rk, coll, s, k, ttl) ==
    CASE b = "memory" ->
             LET r == Mem_set_state(st, lock, s, [kind |-> "str", value |-> k], ttl, now)
             IN  [res |-> r.res, storage |-> r.storage, lock |-> r.lock,
                  redis |-> rk, mongo |-> coll]
      [] b = "redis" ->
             LET r == Redis_set_state(rk, key_prefix, s, k, ttl, now)
             IN  [res |-> r.res, storage |-> st, lock |-> lock,
                  redis |-> r.redis, mongo |-> coll]
      [] OTHER ->
             LET r == Mongo_set_state(coll, s, k, ttl, now)
             IN  [res |-> r.res, storage |-> st, lock |-> lock,
                  redis |-> rk, mongo |-> r.mongo]

SetDataIn(b, st, lock, rk, coll, d, k, ttl) ==
    CASE b = "memory" ->
             LET r == Mem_set_data(st, lock, d, k, ttl, now)
             IN  [res |-> r.res, storage |-> r.storage, lock |-> r.lock,
                  redis |-> rk, mongo |-> coll]
      [] b = "redis" ->
             LET r == Redis_set_data(rk, key_prefix, d, k, ttl, now)
             IN  [res |-> r.res, storage |-> st, lock |-> lock,
                  redis |-> r.redis, mongo |-> coll]
      [] OTHER ->
             LET r == Mongo_set_data(coll, d, k, ttl, now)
             IN  [res |-> r.res, storage |-> st, lock |-> lock,
                  redis |-> rk, mongo |-> r.mongo]

(***************************************************************************)
(* C1: round trip                                                          *)
(***************************************************************************)
\* set_state(s, k), then set_data(d, k), then get_state_data(k), made back
\* to back on backend b from the current state: every call returns and the
\* record read has state s, data d and updated_at >= created_at.
RoundTrip(b, s, d, k) ==
    LET r1 == SetStateIn(b, storage, mem_lock, redis, mongo, s, k, NoneTime)
        r2 == SetDataIn(b, r1.storage, r1.lock, r1.redis, r1.mongo, Dict(d), k, NoneTime)
        r3 == GetStateDataIn(b, r2.storage, r2.lock, r2.redis, r2.mongo, k)
    IN  /\ r1.res.out = "return"
        /\ r2.res.out = "return"
        /\ r3.out = "return"
        /\ r3.val.state = s
        /\ r3.val.data = d
        /\ r3.val.updated_at >= r3.val.created_at

\* C1: in every reachable state and for every valid state s, valid data d
\* and key k, the round trip set_state(s, k); set_data(d, k);
\* get_state_data(k) on the application's backend yields a record with
\* exactly that state and data, and updated_at >= created_at.
C1_RoundTrip ==
    \A s \in StateNames, d \in ValidDicts, k \in Keys : RoundTrip(backend, s, d, k)

(***************************************************************************)
(* The calls of the contract, on whichever backend the application built   *)
(***************************************************************************)
SetStateCall(s, k, ttl) ==
    \/ MemoryStorage_set_state_contract(s, k, ttl)
    \/ RedisStorage_set_state(s, k, ttl)
    \/ MongoStorage_set_state(s, k, ttl)

SetDataCall(d, k, ttl) ==
    \/ MemoryStorage_set_data(d, k, ttl)
    \/ RedisStorage_set_data(d, k, ttl)
    \/ MongoStorage_set_data(d, k, ttl)

FinishStateCall(k) ==
    \/ MemoryStorage_finish_state(k)
    \/ RedisStorage_finish_state(k)
    \/ MongoStorage_finish_state(k)

\* Everything the three stores hold for key k.
EntriesOf(k) ==
    <<[x \in {k} \cap DOMAIN storage |-> storage[x]],
      [x \in {Redis_get_key(key_prefix, META_PREFIX, k),
              Redis_get_key(key_prefix, DATA_PREFIX, k)} \cap DOMAIN redis |-> redis[x]],
      [x \in {k} \cap DOMAIN mongo |-> mongo[x]]>>

(***************************************************************************)
(* C2: expiry                                                              *)
(***************************************************************************)
\* C2: a read of a record that carries an expiry (in-memory backend):
\* before the expiry get_state_data returns the record; at or after it
\* get_state_data raises StateNotFoundError and get_data returns {}; the
\* call completes in both cases.
C2_Expiry ==
    [][\A k \in Keys :
          (/\ backend = "memory"
           /\ mem_lock = "free"
           /\ k \in DOMAIN storage
           /\ storage[k].expires_at # NoneTime)
          => /\ MemoryStorage_get_state_data(k) =>
                    IF now < storage[k].expires_at
                    THEN last'.out = "return" /\ last'.val = storage[k]
                    ELSE last'.out = "raise" /\ last'.exc = "StateNotFoundError"
             /\ MemoryStorage_get_data(k) =>
                    IF now < storage[k].expires_at
                    THEN last'.out = "return" /\ last'.val = storage[k].data
                    ELSE last'.out = "return" /\ last'.val = EmptyDict]_vars

(***************************************************************************)
(* C3: an expired record is invisible                                      *)
(***************************************************************************)
\* C3: a read of a key whose stored record has expired (in-memory backend,
\* and FSMContext, which reads through MemoryStorage.get_state) gives what
\* it gives for a key that was never written: get_state None, get_data {},
\* get_state_data StateNotFoundError, get_or_create_state a fresh record.
C3_ExpiredInvisible ==
    [][\A k \in Keys :
          (/\ backend = "memory"
           /\ mem_lock = "free"
           /\ k \in DOMAIN storage
           /\ Mem_expired(storage[k], now))
          => /\ MemoryStorage_get_state(k) => last'.val = None
             /\ MemoryStorage_get_data(k) =>
                    last'.out = "return" /\ last'.val = EmptyDict
             /\ MemoryStorage_get_state_data(k) =>
                    last'.out = "raise" /\ last'.exc = "StateNotFoundError"
             /\ \A ds \in DefaultStateArgs, ttl \in TTLArgs :
                    MemoryStorage_get_or_create_state(k, ds, ttl) =>
                        /\ last'.out = "return"
                        /\ last'.val = State(IF ds = NoneStr THEN "*" ELSE ds, k)
                        /\ storage'[k].data = EmptyDict
                        /\ storage'[k].created_at = now]_vars

(***************************************************************************)
(* C4: isolation between keys                                              *)
(***************************************************************************)
\* The stores without what they hold for key k.
StorageWithout(k) == [x \in DOMAIN storage \ {k} |-> storage[x]]
RedisWithout(k) ==
    [x \in DOMAIN redis \ {Redis_get_key(key_prefix, META_PREFIX, k),
                           Redis_get_key(key_prefix, DATA_PREFIX, k)} |-> redis[x]]
MongoWithout(k) == [x \in DOMAIN mongo \ {k} |-> mongo[x]]

\* What the call c (its op, key and arguments) answers when the stores are
\* st, rk and coll.
CallResultIn(st, rk, coll, c) ==
    LET k == c.key
        a == c.arg
    IN  CASE backend = "memory" ->
              (CASE c.op = "get_or_create_state" ->
                        Mem_get_or_create_state(st, mem_lock, k, a.default_state,
                                                a.ttl, now).res
                 [] c.op = "get_state" -> Mem_get_state(st, k)
                 [] c.op = "set_state_data" ->
                        Mem_set_state(st, mem_lock, k,
                                      [kind |-> "StateData", value |-> a.state_data],
                                      NoneTime, now).res
                 [] c.op = "set_state" ->
                        Mem_set_state(st, mem_lock, a.state,
                                      [kind |-> "str", value |-> k], a.ttl, now).res
                 [] c.op = "set_data" ->
                        Mem_set_data(st, mem_lock, a.data, k, a.ttl, now).res
                 [] c.op = "get_data" -> Mem_get_data(st, mem_lock, k, now).res
                 [] c.op = "get_state_data" ->
                        Mem_get_state_data(st, mem_lock, k, now).res
                 [] OTHER -> Mem_finish_state(st, mem_lock, k).res)
          [] backend = "redis" ->
              (CASE c.op = "get_or_create_state" ->
                        Redis_get_or_create_state(rk, key_prefix, k, a.default_state,
                                                  a.ttl, now).res
                 [] c.op = "set_state" ->
                        Redis_set_state(rk, key_prefix, a.state, k, a.ttl, now).res
                 [] c.op = "set_data" ->
                        Redis_set_data(rk, key_prefix, a.data, k, a.ttl, now).res
                 [] c.op = "get_data" -> Redis_get_data(rk, key_prefix, k)
                 [] c.op = "get_state_data" -> Redis_get_state_data(rk, key_prefix, k)
                 [] OTHER -> Redis_finish_state(rk, key_prefix, k).res)
          [] OTHER ->
              (CASE c.op = "get_or_create_state" ->
                        Mongo_get_or_create_state(coll, k, a.default_state,
                                                  a.ttl, now).res
                 [] c.op = "set_state" -> Mongo_set_state(coll, a.state, k, a.ttl, now).res
                 [] c.op = "set_data" -> Mongo_set_data(coll, a.data, k, a.ttl, now).res
                 [] c.op = "get_data" -> Mongo_get_data(coll, k, now).res
                 [] c.op = "get_state_data" -> Mongo_get_state_data(coll, k, now).res
                 [] OTHER -> Mongo_finish_state(coll, k).res)

\* The record stored for k has reached its expiry.
StoredExpired(k) ==
    \/ k \in DOMAIN storage /\ Mem_expired(storage[k], now)
    \/ k \in DOMAIN mongo /\ Mem_expired(mongo[k], now)

KeyedOps ==
    {"get_or_create_state", "get_state", "set_state", "set_state_data",
     "set_data", "get_data", "get_state_data", "finish_state"}

\* C4: for every call on a key A and every other key B: what the stores
\* hold for B is the same after the call as before it, and the call
\* answers what it would answer if nothing were stored for B.  A
\* cleanup_expired leaves every record that has not expired as it was.
C4_Isolation ==
    [][\A B \in Keys :
          /\ (last'.op \in KeyedOps /\ last'.key # B) =>
                /\ EntriesOf(B)' = EntriesOf(B)
                /\ [out |-> last'.out, exc |-> last'.exc, val |-> last'.val]
                       = CallResultIn(StorageWithout(B), RedisWithout(B),
                                      MongoWithout(B), last')
          /\ (last'.op = "cleanup_expired" /\ ~StoredExpired(B)) =>
                EntriesOf(B)' = EntriesOf(B)]_vars

\* A set_data on k1 has returned while k2 holds a record of its own, with
\* another state and other data.
C4_Witness ==
    /\ last.op = "set_data"
    /\ last.out = "return"
    /\ last.key = <<"k1">>
    /\ GetStateDataNow(<<"k1">>).out = "return"
    /\ GetStateDataNow(<<"k2">>).out = "return"
    /\ GetStateDataNow(<<"k1">>).val.data # GetStateDataNow(<<"k2">>).val.data
    /\ GetStateDataNow(<<"k1">>).val.state # GetStateDataNow(<<"k2">>).val.state

(***************************************************************************)
(* C5: get_or_create_state under concurrency                               *)
(***************************************************************************)
\* C5: once every task's get_or_create_state on one key has returned, there
\* is one record for the key and every handle returned names that record's
\* state.
C5_NoDivergentRecords ==
    \A k \in Keys :
        (\A t \in Tasks : pc[t].at = "done" /\ pc[t].key = k) =>
            \A t \in Tasks :
                /\ pc[t].res.out = "return"
                /\ GetStateDataNow(k).out = "return"
                /\ pc[t].res.val.name = GetStateDataNow(k).val.state

(***************************************************************************)
(* C6: set_state is an upsert of the state field                           *)
(***************************************************************************)
\* C6: every call set_state(s, k, ttl) with a non-empty s returns; the
\* record get_state_data(k) reads afterwards has state s and updated_at
\* now, and, if a record was readable before, the data and created_at it
\* had.
C6_SetStateUpsert ==
    [][\A k \in Keys, s \in StateNames, ttl \in TTLArgs :
          SetStateCall(s, k, ttl) =>
              LET pre == GetStateDataNow(k)
                  post == GetStateDataNow(k)'
              IN  /\ last'.out = "return"
                  /\ post.out = "return"
                  /\ post.val.state = s
                  /\ post.val.updated_at = now
                  /\ pre.out = "return" =>
                        /\ post.val.data = pre.val.data
                        /\ post.val.created_at = pre.val.created_at]_vars

(***************************************************************************)
(* C7: set_data replaces the data, and needs a record                      *)
(***************************************************************************)
\* C7: every call set_data(d, k, ttl) with valid data d: if a record was
\* readable for k, it returns and the record read afterwards has exactly
\* the data d and the state it had; if there was none, it raises
\* StateNotFoundError and writes nothing.
C7_SetDataReplaces ==
    [][\A k \in Keys, d \in ValidDicts, ttl \in TTLArgs :
          SetDataCall(Dict(d), k, ttl) =>
              LET pre == GetStateDataNow(k)
                  post == GetStateDataNow(k)'
              IN  /\ pre.out = "return" =>
                        /\ last'.out = "return"
                        /\ post.out = "return"
                        /\ post.val.data = d
                        /\ post.val.state = pre.val.state
                  /\ (pre.out = "raise" /\ pre.exc = "StateNotFoundError") =>
                        /\ last'.out = "raise"
                        /\ last'.exc = "StateNotFoundError"
                        /\ UNCHANGED <<storage, redis, mongo>>]_vars

(***************************************************************************)
(* C8: get_data is a soft-fail read                                        *)
(***************************************************************************)
\* C8: in every reachable state and for every key k: if get_state_data(k)
\* raises StateNotFoundError, or the record stored for k has expired, then
\* get_data(k) returns {}.
C8_GetDataSoftFail ==
    \A k \in Keys :
        (\/ GetStateDataNow(k).exc = "StateNotFoundError"
         \/ (backend = "memory" /\ k \in DOMAIN storage
                                /\ Mem_expired(storage[k], now)))
        => GetDataNow(k) = Return(EmptyDict)

(***************************************************************************)
(* C9: finish_state is idempotent                                          *)
(***************************************************************************)
\* C9: every call finish_state(k), on a key with or without a record,
\* returns without raising and leaves what is stored under the other keys
\* unchanged; afterwards get_data(k) returns {} and get_state_data(k)
\* raises StateNotFoundError.
C9_FinishIdempotent ==
    [][\A k \in Keys :
          FinishStateCall(k) =>
              /\ last'.out = "return"
              /\ \A other \in Keys \ {k} : EntriesOf(other)' = EntriesOf(other)
              /\ GetDataNow(k)' = Return(EmptyDict)
              /\ GetStateDataNow(k)'.exc = "StateNotFoundError"]_vars

(***************************************************************************)
(* C10: set_data validates before it writes                                *)
(***************************************************************************)
InvalidDataArgs == {Dict(d) : d \in OversizedDicts} \cup {NotADict}

\* C10: every call set_data(data, k, ttl) whose data is not a mapping, or
\* is larger than MAX_DATA_SIZE when serialized, raises
\* StateValidationError and leaves every store as it was.
C10_SetDataValidation ==
    [][\A k \in Keys, data \in InvalidDataArgs, ttl \in TTLArgs :
          SetDataCall(data, k, ttl) =>
              /\ last'.out = "raise"
              /\ last'.exc = "StateValidationError"
              /\ UNCHANGED <<storage, mem_lock, redis, mongo>>]_vars

\* An oversized set_data has just been refused on a key that holds a
\* record, data included, and the record is still there.
C10_Witness ==
    /\ last.op = "set_data"
    /\ last.exc = "StateValidationError"
    /\ last.arg.data \in {Dict(d) : d \in OversizedDicts}
    /\ GetStateDataNow(last.key).out = "return"
    /\ GetStateDataNow(last.key).val.data # EmptyDict

(***************************************************************************)
(* C11: set_state validates the state                                      *)
(***************************************************************************)
\* C11: every call set_state("", k, ttl) raises StateValidationError and
\* leaves every store as it was.
C11_SetStateValidation ==
    [][\A k \in Keys, ttl \in TTLArgs :
          SetStateCall("", k, ttl) =>
              /\ last'.out = "raise"
              /\ last'.exc = "StateValidationError"
              /\ UNCHANGED <<storage, mem_lock, redis, mongo>>]_vars

(***************************************************************************)
(* C12: cleanup_expired                                                    *)
(***************************************************************************)
CleanupExpiredCall ==
    \/ MemoryStorage_cleanup_expired
    \/ RedisStorage_cleanup_expired
    \/ MongoStorage_cleanup_expired

NoEntries == <<<<>>, <<>>, <<>>>>

\* C12: every call cleanup_expired() returns the number of records that
\* were expired when it was called, has removed each of them, and has left
\* every other record as it was.
C12_CleanupExpired ==
    [][CleanupExpiredCall =>
          /\ last'.out = "return"
          /\ last'.val = [count |-> Cardinality({k \in Keys : StoredExpired(k)})]
          /\ \A k \in Keys :
                IF StoredExpired(k)
                THEN EntriesOf(k)' = NoEntries
                ELSE EntriesOf(k)' = EntriesOf(k)]_vars

(***************************************************************************)
(* list_states(state, created_before)                                      *)
(*   The keys an iteration yields are gathered in a set.                   *)
(***************************************************************************)
ListStateArgs == {NoneStr, "a"}
CreatedBeforeArgs == {NoneTime, 1}

\* `state is not None and state_data.state != state: continue`
\* `created_before is not None and state_data.created_at >= created_before: continue`
ListFilter(rec, state, created_before) ==
    /\ state = NoneStr \/ rec.state = state
    /\ created_before = NoneTime \/ rec.created_at < created_before

\* MemoryStorage.list_states: under the lock, _check_expired on every key
\* that passes the filters.
Mem_list_states(st, lock, state, created_before, t) ==
    IF lock # "free" THEN MemBlocked(st)
    ELSE LET passing == {k \in DOMAIN st : ListFilter(st[k], state, created_before)}
         IN  IF \E k \in passing : Mem_check_expired(st, k, t) = "deadlock"
             THEN MemBlocked(st)
             ELSE MemRes(Return([keys |-> passing]), st, lock)

\* `self._redis.scan_iter(match=pattern)`: the keys that `pattern` minus its
\* final "*" begins.
SCAN(rk, pattern) ==
    {x \in DOMAIN rk : /\ Len(x) > Len(pattern)
                       /\ SubSeq(x, 1, Len(pattern)) = pattern}

\* `key.decode().split(':', 2)[-1]`
Split2Last(segments) == SubSeq(segments, 3, Len(segments))

\* RedisStorage.list_states
Redis_list_states(rk, kp, state, created_before) ==
    LET listed == {Split2Last(x) : x \in SCAN(rk, Redis_get_key(kp, META_PREFIX, <<>>))}
        found == {k \in listed : Redis_get_state_data(rk, kp, k).out = "return"}
    IN  IF \E k \in listed :
               /\ Redis_get_state_data(rk, kp, k).out = "raise"
               /\ Redis_get_state_data(rk, kp, k).exc # "StateNotFoundError"
        THEN Raise("StorageError")
        ELSE Return([keys |-> {k \in found :
                         ListFilter(Redis_get_state_data(rk, kp, k).val,
                                    state, created_before)}])

\* MongoStorage.list_states: collection.find(query), no look at expires_at
Mongo_list_states(coll, state, created_before) ==
    Return([keys |-> {k \in DOMAIN coll : ListFilter(coll[k], state, created_before)}])

MemoryStorage_list_states(state, created_before) ==
    MemStep("list_states", <<>>, [state |-> state, created_before |-> created_before],
            Mem_list_states(storage, mem_lock, state, created_before, now))

RedisStorage_list_states(state, created_before) ==
    RedisStep("list_states", <<>>, [state |-> state, created_before |-> created_before],
              RedisRes(Redis_list_states(redis, key_prefix, state, created_before), redis))

MongoStorage_list_states(state, created_before) ==
    MongoStep("list_states", <<>>, [state |-> state, created_before |-> created_before],
              MongoRes(Mongo_list_states(mongo, state, created_before), mongo))

ListStatesCall(state, created_before) ==
    \/ MemoryStorage_list_states(state, created_before)
    \/ RedisStorage_list_states(state, created_before)
    \/ MongoStorage_list_states(state, created_before)

\* Two conversations are created, expire and are finished, and the
\* application lists them.
NextList ==
    \/ Tick
    \/ \E key \in Keys, ds \in ListStateArgs, ttl \in TTLArgs :
          \/ MemoryStorage_get_or_create_state(key, ds, ttl)
          \/ RedisStorage_get_or_create_state(key, ds, ttl)
          \/ MongoStorage_get_or_create_state(key, ds, ttl)
    \/ \E key \in Keys : FinishStateCall(key)
    \/ \E state \in ListStateArgs, created_before \in CreatedBeforeArgs :
          ListStatesCall(state, created_before)

SpecList == Init /\ [][NextList]_vars

(***************************************************************************)
(* C13: list_states                                                        *)
(***************************************************************************)
\* The record stored for k, if there is one that has not expired.
LiveRecords(k) ==
    CASE backend = "memory" ->
             {storage[x] : x \in {y \in {k} \cap DOMAIN storage :
                                      ~Mem_expired(storage[y], now)}}
      [] backend = "redis" ->
             {Redis_get_state_data(redis, key_prefix, x).val :
                  x \in {y \in {k} : Redis_get_state_data(redis, key_prefix, y).out
                                         = "return"}}
      [] OTHER ->
             {mongo[x] : x \in {y \in {k} \cap DOMAIN mongo :
                                    ~Mem_expired(mongo[y], now)}}

\* C13: every call list_states(state, created_before) returns, and yields
\* exactly the keys whose record exists, has not expired and passes the
\* two filters.
C13_ListStates ==
    [][\A state \in ListStateArgs, created_before \in CreatedBeforeArgs :
          ListStatesCall(state, created_before) =>
              /\ last'.out = "return"
              /\ last'.val.keys =
                     {k \in Keys : \E rec \in LiveRecords(k) :
                                      ListFilter(rec, state, created_before)}]_vars

(***************************************************************************)
(* C14: timestamps                                                         *)
(***************************************************************************)
\* Every record the stores hold for k, expired or not.
StoredRecords(k) ==
    CASE backend = "memory" -> {storage[x] : x \in {k} \cap DOMAIN storage}
      [] backend = "redis" -> LiveRecords(k)
      [] OTHER -> {mongo[x] : x \in {k} \cap DOMAIN mongo}

\* C14: after every step, every stored record has updated_at >= created_at,
\* and a record that was live before the step and is live after it has the
\* created_at it had.
C14_Timestamps ==
    [][\A k \in Keys :
          /\ \A rec \in StoredRecords(k)' : rec.updated_at >= rec.created_at
          /\ \A old \in LiveRecords(k) : \A new \in LiveRecords(k)' :
                new.created_at = old.created_at]_vars

(***************************************************************************)
(* FSMContext                                                              *)
(*   It calls storage.get_state, storage.set_state(key, state_data) and    *)
(*   storage.delete_state, which MemoryStorage alone defines.              *)
(***************************************************************************)
Updates == {[chat |-> "c1", user |-> "u1"]}

\* FSMContext._get_key(update): f"{chat_id}:{user_id}"
FSMContext_get_key(update) == <<update.chat, update.user>>

CtxStateArgs == {"a", "b", NoneStr}
CtxDataArgs == {None, Dict("f" :> 1), Dict("f" :> 2), Dict("g" :> 2)}

\* What `**data` collects: always a dict, empty when no keyword is passed.
CtxKwargs == {Dict(EmptyDict), Dict("f" :> 2), Dict("g" :> 2)}

\* `{**existing, **data}` and `existing.update(data)`
Merge(existing, data) == data @@ existing

\* `await self.storage.get_state(key)` / `await self.storage.delete_state(key)`
\* on a storage that has no such method.
NoSuchMethod(st, lock) == MemRes(Raise("AttributeError"), st, lock)

\* FSMContext.get_state(update): `data.state if data else None`
Ctx_get_state(b, st, lock, key) ==
    IF b # "memory" THEN NoSuchMethod(st, lock)
    ELSE IF key \in DOMAIN st /\ st[key].state # NoneStr
         THEN MemRes(Return([state |-> st[key].state]), st, lock)
         ELSE MemRes(Return(None), st, lock)

\* FSMContext.set_state(update, state, data)
Ctx_set_state(b, st, lock, key, state, data, t) ==
    IF b # "memory" THEN NoSuchMethod(st, lock)
    ELSE IF state = NoneStr THEN Mem_finish_state(st, lock, key)
    ELSE LET existing == key \in DOMAIN st
             created_at == IF existing THEN st[key].created_at ELSE t
             current_data ==
                 IF existing
                 THEN (IF data # None THEN Merge(st[key].data, data.items)
                       ELSE st[key].data)
                 ELSE (IF data # None THEN data.items ELSE EmptyDict)
             \* current_data.update(data) changes the stored mapping itself
             st1 == IF existing
                    THEN [st EXCEPT ![key].data = current_data]
                    ELSE st
         IN  Mem_set_state(st1, lock, key,
                           [kind |-> "StateData",
                            value |-> StateData(state, current_data, created_at,
                                                t, NoneTime)],
                           NoneTime, t)

\* FSMContext.set_data(update, data)
Ctx_set_data(b, st, lock, key, data, t) ==
    IF b # "memory" THEN NoSuchMethod(st, lock)
    ELSE LET sd == IF key \in DOMAIN st
                   THEN StateData(st[key].state, data.items, st[key].created_at,
                                  t, st[key].expires_at)
                   ELSE StateData(NoneStr, data.items, t, t, NoneTime)
         IN  Mem_set_state(st, lock, key, [kind |-> "StateData", value |-> sd],
                           NoneTime, t)

\* FSMContext.get_data(update): `data.data if data else {}`
Ctx_get_data(b, st, lock, key) ==
    IF b # "memory" THEN NoSuchMethod(st, lock)
    ELSE IF key \in DOMAIN st
         THEN MemRes(Return(st[key].data), st, lock)
         ELSE MemRes(Return(EmptyDict), st, lock)

\* FSMContext.update_data(update, data)
Ctx_update_data(b, st, lock, key, data, t) ==
    IF b # "memory" THEN NoSuchMethod(st, lock)
    ELSE LET sd == IF key \in DOMAIN st
                   THEN StateData(st[key].state, Merge(st[key].data, data.items),
                                  st[key].created_at, t, st[key].expires_at)
                   ELSE StateData(NoneStr, data.items, t, t, NoneTime)
         IN  Mem_set_state(st, lock, key, [kind |-> "StateData", value |-> sd],
                           NoneTime, t)

\* FSMContext.finish(update)
Ctx_finish(b, st, lock, key) ==
    IF b # "memory" THEN NoSuchMethod(st, lock)
    ELSE Mem_finish_state(st, lock, key)

\* FSMContext.set_state_data(update, state, **data): get_state returns None
\* for a key without a record, and `existing_data.created_at` is read from it.
Ctx_set_state_data(b, st, lock, key, state, data, t) ==
    IF b # "memory" THEN NoSuchMethod(st, lock)
    ELSE IF state = NoneStr THEN Mem_finish_state(st, lock, key)
    ELSE IF key \notin DOMAIN st THEN MemRes(Raise("AttributeError"), st, lock)
    ELSE Mem_set_state(st, lock, key,
                       [kind |-> "StateData",
                        value |-> StateData(state, data.items, st[key].created_at,
                                            t, NoneTime)],
                       NoneTime, t)

\* A call of an FSMContext method, on whichever storage it was given.
CtxStep(op, key, arg, r) ==
    /\ storage' = r.storage
    /\ mem_lock' = r.lock
    /\ last' = Call(op, key, arg, r.res)
    /\ UNCHANGED <<backend, now, key_prefix, redis, mongo, pc, handle,
         mm, pool, helpers, disp>>

FSMContext_get_state(update) ==
    CtxStep("ctx_get_state", FSMContext_get_key(update), None,
            Ctx_get_state(backend, storage, mem_lock, FSMContext_get_key(update)))

FSMContext_set_state(update, state, data) ==
    CtxStep("ctx_set_state", FSMContext_get_key(update),
            [state |-> state, data |-> data],
            Ctx_set_state(backend, storage, mem_lock, FSMContext_get_key(update),
                          state, data, now))

FSMContext_set_data(update, data) ==
    CtxStep("ctx_set_data", FSMContext_get_key(update), [data |-> data],
            Ctx_set_data(backend, storage, mem_lock, FSMContext_get_key(update),
                         data, now))

FSMContext_get_data(update) ==
    CtxStep("ctx_get_data", FSMContext_get_key(update), None,
            Ctx_get_data(backend, storage, mem_lock, FSMContext_get_key(update)))

FSMContext_update_data(update, data) ==
    CtxStep("ctx_update_data", FSMContext_get_key(update), [data |-> data],
            Ctx_update_data(backend, storage, mem_lock, FSMContext_get_key(update),
                            data, now))

FSMContext_set_state_data(update, state, data) ==
    CtxStep("ctx_set_state_data", FSMContext_get_key(update),
            [state |-> state, data |-> data],
            Ctx_set_state_data(backend, storage, mem_lock,
                               FSMContext_get_key(update), state, data, now))

FSMContext_finish(update) ==
    CtxStep("ctx_finish", FSMContext_get_key(update), None,
            Ctx_finish(backend, storage, mem_lock, FSMContext_get_key(update)))

\* A conversation driven through an FSMContext; its record may also have
\* been created, with a TTL, by get_or_create_state.
NextCtx ==
    \/ Tick
    \/ \E update \in Updates :
          \/ \E state \in CtxStateArgs, data \in CtxDataArgs :
                FSMContext_set_state(update, state, data)
          \/ \E data \in CtxDataArgs \ {None} :
                \/ FSMContext_set_data(update, data)
                \/ FSMContext_update_data(update, data)
          \/ \E state \in CtxStateArgs, data \in CtxKwargs :
                FSMContext_set_state_data(update, state, data)
          \/ FSMContext_get_state(update)
          \/ FSMContext_get_data(update)
          \/ FSMContext_finish(update)
          \/ \E ttl \in TTLArgs :
                MemoryStorage_get_or_create_state(FSMContext_get_key(update),
                                                  NoneStr, ttl)

SpecCtx == Init /\ [][NextCtx]_vars

(***************************************************************************)
(* The State handle                                                        *)
(*   Every method is wrapped by `synchronized`:                            *)
(*       async with self._lock: return await coro(self, ...)               *)
(***************************************************************************)
\* The backend as one value, and a call's outcome with the backend it leaves.
World(res, st, lock, rk, coll) ==
    [res |-> res, storage |-> st, lock |-> lock, redis |-> rk, mongo |-> coll]

\* self.__storage.<op>(..., self.__key), with no ttl, on backend b
Storage_call(b, op, arg, key, st, lock, rk, kp, coll, t) ==
    CASE b = "memory" ->
           LET r == CASE op = "get_or_create_state" ->
                         Mem_get_or_create_state(st, lock, key, arg.default_state,
                                                 arg.ttl, t)
                      [] op = "set_state" ->
                         Mem_set_state(st, lock, arg.state,
                                       [kind |-> "str", value |-> key], NoneTime, t)
                      [] op = "set_data" ->
                         Mem_set_data(st, lock, arg.data, key, NoneTime, t)
                      [] op = "get_data" -> Mem_get_data(st, lock, key, t)
                      [] OTHER -> Mem_finish_state(st, lock, key)
           IN  World(r.res, r.storage, r.lock, rk, coll)
      [] b = "redis" ->
           LET r == CASE op = "get_or_create_state" ->
                         Redis_get_or_create_state(rk, kp, key, arg.default_state,
                                                   arg.ttl, t)
                      [] op = "set_state" ->
                         Redis_set_state(rk, kp, arg.state, key, NoneTime, t)
                      [] op = "set_data" ->
                         Redis_set_data(rk, kp, arg.data, key, NoneTime, t)
                      [] op = "get_data" -> RedisRes(Redis_get_data(rk, kp, key), rk)
                      [] OTHER -> Redis_finish_state(rk, kp, key)
           IN  World(r.res, st, lock, r.redis, coll)
      [] OTHER ->
           LET r == CASE op = "get_or_create_state" ->
                         Mongo_get_or_create_state(coll, key, arg.default_state,
                                                   arg.ttl, t)
                      [] op = "set_state" ->
                         Mongo_set_state(coll, arg.state, key, NoneTime, t)
                      [] op = "set_data" ->
                         Mongo_set_data(coll, arg.data, key, NoneTime, t)
                      [] op = "get_data" -> Mongo_get_data(coll, key, t)
                      [] OTHER -> Mongo_finish_state(coll, key)
           IN  World(r.res, st, lock, rk, r.mongo)

\* The body of a State method: its own validation, the storage call, and
\* `raise type(e)(...)` for whatever the storage raised.
State_method(b, op, arg, key, st, lock, rk, kp, coll, t) ==
    IF op = "set_state" /\ arg.state = ""
    THEN World(Raise("ValueError"), st, lock, rk, coll)
    ELSE IF op = "set_data" /\ arg.data.kind # "dict"
    THEN World(Raise("TypeError"), st, lock, rk, coll)
    ELSE Storage_call(b, op, arg, key, st, lock, rk, kp, coll, t)

\* self._name after the method: set_state and finish assign it on success.
State_name(name, op, arg, res) ==
    IF res.out # "return" THEN name
    ELSE IF op = "set_state" THEN arg.state
    ELSE IF op = "finish" THEN ""
    ELSE name

\* asyncio.Lock.locked()
Lock_locked_Never(lock) == FALSE

Lock_locked(lock) == lock # "free"

\* The tasks inside a method of the handle, its storage call included.
Inside == {t \in Tasks : pc[t].at \in {"inside", "hung"}}

HandleStep(w) ==
    /\ storage' = w.storage
    /\ mem_lock' = w.lock
    /\ redis' = w.redis
    /\ mongo' = w.mongo
    /\ UNCHANGED <<backend, now, key_prefix, mm, pool, helpers, disp>>

\* `state = await storage.get_or_create_state(key, default_state, ttl)`:
\* the application obtains the handle its tasks will share.
Handle_obtain(key, default_state, ttl) ==
    /\ handle = NoHandle
    /\ LET arg == [default_state |-> default_state, ttl |-> ttl]
           w == Storage_call(backend, "get_or_create_state", arg, key, storage,
                             mem_lock, redis, key_prefix, mongo, now)
       IN  /\ HandleStep(w)
           /\ handle' = IF w.res.out = "return"
                        THEN [key |-> key, name |-> w.res.val.name, lock |-> "free"]
                        ELSE handle
           /\ last' = Call("get_or_create_state", key, arg, w.res)
           /\ UNCHANGED pc

\* A task calls a method of the handle: it reaches `async with self._lock`.
Handle_call(t, op, arg) ==
    /\ handle # NoHandle
    /\ pc[t].at = "idle"
    /\ pc' = [pc EXCEPT ![t] = [at |-> "acquire", op |-> op, arg |-> arg]]
    /\ UNCHANGED <<backend, now, storage, mem_lock, key_prefix, redis, mongo,
                   last, handle,
         mm, pool, helpers, disp>>

\* The lock is free: the task takes it and enters the method.
Handle_acquire(t) ==
    /\ pc[t].at = "acquire"
    /\ ~Lock_locked(handle.lock)
    /\ handle' = [handle EXCEPT !.lock = t]
    /\ pc' = [pc EXCEPT ![t].at = "inside"]
    /\ UNCHANGED <<backend, now, storage, mem_lock, key_prefix, redis, mongo,
                   last, mm, pool, helpers, disp>>

\* The method runs. When it returns or raises, `async with` releases the
\* lock; when the storage call never completes, the task stays inside.
Handle_run(t) ==
    /\ pc[t].at = "inside"
    /\ LET w == State_method(backend, pc[t].op, pc[t].arg, handle.key, storage,
                             mem_lock, redis, key_prefix, mongo, now)
       IN  /\ HandleStep(w)
           /\ last' = Call(pc[t].op, handle.key, pc[t].arg, w.res)
           /\ IF w.res.out = "hang"
              THEN /\ pc' = [pc EXCEPT ![t].at = "hung"]
                   /\ UNCHANGED handle
              ELSE /\ pc' = [pc EXCEPT ![t] = Idle]
                   /\ handle' = [handle EXCEPT
                                   !.name = State_name(handle.name, pc[t].op,
                                                       pc[t].arg, w.res),
                                   !.lock = "free"]

HandleDataArgs == {Dict(EmptyDict), Dict("f" :> 1), NotADict}

NextHandle ==
    \/ Tick
    \/ \E ttl \in TTLArgs : Handle_obtain(<<"k1">>, NoneStr, ttl)
    \/ \E t \in Tasks :
          \/ \E state \in {"a", ""} : Handle_call(t, "set_state", [state |-> state])
          \/ \E data \in HandleDataArgs : Handle_call(t, "set_data", [data |-> data])
          \/ Handle_call(t, "get_data", None)
          \/ Handle_call(t, "finish", None)
          \/ Handle_acquire(t)
          \/ Handle_run(t)

SpecHandle == Init /\ [][NextHandle]_vars

(***************************************************************************)
(* Claims C15, C16: the State handle                                       *)
(***************************************************************************)
\* The step is task t leaving a method of the handle: it returned or raised.
HandleExit(t) == pc[t].at = "inside" /\ pc'[t].at = "idle"

\* C15: at most one task is inside a method of one handle at any time, and
\* the task inside is the one that holds the handle's lock; a task enters
\* only when no task is inside; and every step on which a method returns or
\* raises leaves the lock free.
C15_HandleSerialized ==
    [][/\ Cardinality(Inside') <= 1
       /\ \A t \in Inside' : handle'.lock = t
       /\ \A t \in Tasks :
             /\ Handle_acquire(t) => Inside = {}
             /\ HandleExit(t) => /\ last'.out \in {"return", "raise"}
                                 /\ handle'.lock = "free"
                                 /\ Inside' = {}]_vars

\* A call through the handle raised while another task was waiting for the
\* lock, which is free again.
C15_Witness ==
    /\ last.op \in {"set_state", "set_data", "get_data", "finish"}
    /\ last.out = "raise"
    /\ handle.lock = "free"
    /\ \E t \in Tasks : pc[t].at = "acquire"


\* What a method of the handle must have done when it leaves, for a task
\* that ran it with valid arguments.
HandleFlowOf(t) ==
    LET op == pc[t].op
        arg == pc[t].arg
        key == handle.key
    IN  CASE op = "set_state" /\ arg.state # "" ->
               /\ last'.out = "return"
               /\ handle'.name = arg.state
               /\ GetStateDataNow(key)'.out = "return"
               /\ GetStateDataNow(key)'.val.state = arg.state
          [] op = "set_data" /\ arg.data.kind = "dict" ->
               /\ last'.out = "return"
               /\ GetDataNow(key)' = Return(arg.data.items)
          [] op = "get_data" ->
               /\ last'.out = "return"
               /\ last'.val = GetDataNow(key).val
          [] op = "finish" ->
               /\ last'.out = "return"
               /\ handle'.name = ""
               /\ EntriesOf(key)' = NoEntries
          [] OTHER -> TRUE

\* C16: through a handle obtained from get_or_create_state, set_state(s) with
\* a non-empty s returns and makes the stored state and handle.name equal to
\* s; set_data(d) returns and get_data then gives d; get_data returns the
\* stored data; finish returns, removes the record and empties handle.name.
C16_HandleFlow ==
    [][\A t \in Tasks : Handle_run(t) => HandleFlowOf(t)]_vars

(***************************************************************************)
(* Claims C17, C18: FSMContext                                             *)
(***************************************************************************)
\* What FSMContext.get_state(update) and get_data(update) give in the
\* current state.
CtxStateNow(update) ==
    Ctx_get_state(backend, storage, mem_lock, FSMContext_get_key(update)).res
CtxDataNow(update) ==
    Ctx_get_data(backend, storage, mem_lock, FSMContext_get_key(update)).res

\* C17: after set_state(update, s), with or without data, get_state(update)
\* returns s, and get_data(update) returns the data when data was given;
\* after finish(update) or set_state(update, None), get_state(update)
\* returns None and get_data(update) returns {}.
C17_CtxStateManagement ==
    [][\A update \in Updates :
          /\ \A state \in CtxStateArgs \ {NoneStr}, data \in CtxDataArgs :
                FSMContext_set_state(update, state, data) =>
                    /\ last'.out = "return"
                    /\ CtxStateNow(update)' = Return([state |-> state])
                    /\ data # None => CtxDataNow(update)' = Return(data.items)
          /\ (FSMContext_finish(update)
                \/ \E data \in CtxDataArgs :
                      FSMContext_set_state(update, NoneStr, data)) =>
                    /\ last'.out = "return"
                    /\ CtxStateNow(update)' = Return(None)
                    /\ CtxDataNow(update)' = Return(EmptyDict)]_vars


\* new is old with every key of d set to d's value.
ShallowMerged(old, d, new) ==
    /\ DOMAIN new = DOMAIN old \cup DOMAIN d
    /\ \A f \in DOMAIN new : new[f] = IF f \in DOMAIN d THEN d[f] ELSE old[f]

\* C18: update_data(update, d) returns; get_data(update) then maps every key
\* of d to d's value and every other key stored before to the value it had;
\* the state of an existing record is unchanged; and a key without a record
\* gets a record whose data is d.
C18_UpdateDataMerges ==
    [][\A update \in Updates, data \in CtxDataArgs \ {None} :
          FSMContext_update_data(update, data) =>
              /\ last'.out = "return"
              /\ CtxDataNow(update)'.out = "return"
              /\ ShallowMerged(CtxDataNow(update).val, data.items,
                               CtxDataNow(update)'.val)
              /\ CtxStateNow(update)' = CtxStateNow(update)
              /\ EntriesOf(FSMContext_get_key(update))' # NoEntries]_vars

(***************************************************************************)
(* FSMContext.update_data called by concurrent tasks.  Each `await` of the *)
(* method is a point where the event loop may run another task; a storage *)
(* call that completes without suspending runs through, which is one of   *)
(* the schedules below.                                                    *)
(***************************************************************************)
UpdDataArgs == {Dict("f" :> 1), Dict("f" :> 2), Dict("g" :> 2)}

\* The StateData update_data builds from what get_state returned.
Upd_state_data(st, key, data, t) ==
    IF key \in DOMAIN st
    THEN StateData(st[key].state, Merge(st[key].data, data.items),
                   st[key].created_at, t, st[key].expires_at)
    ELSE StateData(NoneStr, data.items, t, t, NoneTime)

UpdStep(t, to) ==
    /\ pc' = [pc EXCEPT ![t] = to]
    /\ UNCHANGED <<backend, now, key_prefix, redis, mongo, handle,
         mm, pool, helpers, disp>>

\* The call starts: it runs up to `await self.storage.get_state(key)`.
Upd_update_data(t, update, data) ==
    /\ pc[t].at = "idle"
    /\ UpdStep(t, [at |-> "get_state", key |-> FSMContext_get_key(update),
                   data |-> data])
    /\ UNCHANGED <<storage, mem_lock, last>>

\* `existing_data = await self.storage.get_state(key)`, then the merge
Upd_get_state(t) ==
    /\ pc[t].at = "get_state"
    /\ UNCHANGED <<storage, mem_lock>>
    /\ IF backend # "memory"
       THEN /\ UpdStep(t, Idle)
            /\ last' = Call("ctx_update_data", pc[t].key, [data |-> pc[t].data],
                            Raise("AttributeError"))
       ELSE /\ UpdStep(t, [at |-> "set_state", key |-> pc[t].key,
                           data |-> pc[t].data,
                           state_data |-> Upd_state_data(storage, pc[t].key,
                                                         pc[t].data, now)])
            /\ UNCHANGED last

\* `await self.storage.set_state(key, state_data)`
Upd_set_state(t) ==
    /\ pc[t].at = "set_state"
    /\ LET r == Mem_set_state(storage, mem_lock, pc[t].key,
                              [kind |-> "StateData", value |-> pc[t].state_data],
                              NoneTime, now)
       IN  /\ storage' = r.storage
           /\ mem_lock' = r.lock
           /\ last' = Call("ctx_update_data", pc[t].key, [data |-> pc[t].data],
                           r.res)
           /\ UpdStep(t, Idle)

NextUpd ==
    \/ Tick
    \/ \E t \in Tasks :
          \/ \E update \in Updates, data \in UpdDataArgs :
                Upd_update_data(t, update, data)
          \/ Upd_get_state(t)
          \/ Upd_set_state(t)

SpecUpd == Init /\ [][NextUpd]_vars

\* C19: an update_data that runs while another one is in progress never
\* fails and never waits for ever, and what is stored after its write is
\* exactly the merge that call computed from the data it read, whatever the
\* other task wrote in between.
C19_LastWriteWins ==
    [][\A t \in Tasks :
          /\ Upd_get_state(t) => pc'[t].at = "set_state"
          /\ Upd_set_state(t) =>
                /\ last'.out = "return"
                /\ storage'[pc[t].key].data = pc[t].state_data.data]_vars

(***************************************************************************)
(* test_concurrent_access: tasks that repeat                               *)
(*     data = await storage.get_state(key)                                 *)
(*     data.data['counter'] += 1                                           *)
(*     await storage.set_state(key, data)                                  *)
(*     await asyncio.sleep(0)                                              *)
(* on one MemoryStorage.  A dict is an object: [id, items].  get_state     *)
(* returns the stored StateData itself and set_state stores                *)
(* `data=state_data.data`, the same dict, so a change made through one     *)
(* reference shows through every reference to that object.  Each `await`   *)
(* is a point where the event loop may run another task.                   *)
(***************************************************************************)
Iterations == 3

CounterKey == <<"test_key">>

DictObject(id, items) == [id |-> id, items |-> items]

\* `data['counter'] += 1` on the object id, seen through the reference d
Incremented(d, id) ==
    IF d.id = id THEN [d EXCEPT !.items = ("counter" :> (@["counter"] + 1)) @@ @]
    ELSE d

\* The task's local `data`, when it has one.
HasData(p) == "data" \in DOMAIN p

CounterStep(t, to) ==
    /\ pc' = [pc EXCEPT ![t] = to]
    /\ UNCHANGED <<backend, now, key_prefix, redis, mongo, handle,
         mm, pool, helpers, disp>>

\* `await storage.set_state(key, state_data)` with data={'counter': 0}
Counter_set_initial ==
    /\ backend = "memory"
    /\ CounterKey \notin DOMAIN storage
    /\ MemStep("set_state_data", CounterKey, None,
               Mem_set_state(storage, mem_lock, CounterKey,
                             [kind |-> "StateData",
                              value |-> StateData("a", DictObject(0, "counter" :> 0),
                                                  now, now, NoneTime)],
                             NoneTime, now))

\* asyncio.create_task(increment_counter())
Counter_create_task(t) ==
    /\ CounterKey \in DOMAIN storage
    /\ pc[t].at = "idle"
    /\ CounterStep(t, [at |-> "get_state", i |-> 0])
    /\ UNCHANGED <<storage, mem_lock, last>>

\* `data = await storage.get_state(key)`
Counter_get_state(t) ==
    /\ pc[t].at = "get_state"
    /\ CounterStep(t, [at |-> "increment", i |-> pc[t].i,
                       data |-> Mem_get_state(storage, CounterKey).val])
    /\ last' = Call("get_state", CounterKey, None, Mem_get_state(storage, CounterKey))
    /\ UNCHANGED <<storage, mem_lock>>

\* `data.data['counter'] += 1`: the dict changes for every holder of it
Counter_increment(t) ==
    /\ pc[t].at = "increment"
    /\ LET id == pc[t].data.data.id
       IN  /\ storage' = [k \in DOMAIN storage |->
                             [storage[k] EXCEPT !.data = Incremented(@, id)]]
           /\ pc' = [u \in Tasks |->
                        LET p == IF u = t THEN [pc[t] EXCEPT !.at = "set_state"]
                                 ELSE pc[u]
                        IN  IF HasData(p)
                            THEN [p EXCEPT !.data.data = Incremented(@, id)]
                            ELSE p]
    /\ UNCHANGED <<backend, now, mem_lock, key_prefix, redis, mongo, last, handle,
         mm, pool, helpers, disp>>

\* `await storage.set_state(key, data)`
Counter_set_state(t) ==
    /\ pc[t].at = "set_state"
    /\ LET r == Mem_set_state(storage, mem_lock, CounterKey,
                              [kind |-> "StateData", value |-> pc[t].data],
                              NoneTime, now)
       IN  /\ storage' = r.storage
           /\ mem_lock' = r.lock
           /\ last' = Call("set_state_data", CounterKey, None, r.res)
           /\ CounterStep(t, [at |-> "sleep", i |-> pc[t].i + 1])

\* `await asyncio.sleep(0)`, then the next iteration or the end of the task
Counter_sleep(t) ==
    /\ pc[t].at = "sleep"
    /\ CounterStep(t, [at |-> IF pc[t].i < Iterations THEN "get_state" ELSE "done",
                       i |-> pc[t].i])
    /\ UNCHANGED <<storage, mem_lock, last>>

NextCounter ==
    \/ Counter_set_initial
    \/ \E t \in Tasks :
          \/ Counter_create_task(t)
          \/ Counter_get_state(t)
          \/ Counter_increment(t)
          \/ Counter_set_state(t)
          \/ Counter_sleep(t)

SpecCounter == Init /\ [][NextCounter]_vars

(***************************************************************************)
(* Claim C20                                                               *)
(***************************************************************************)
\* The increments task t has performed so far.
Increments(t) ==
    IF pc[t].at = "idle" THEN 0
    ELSE pc[t].i + (IF pc[t].at = "set_state" THEN 1 ELSE 0)

RECURSIVE TotalIncrements(_)
TotalIncrements(ts) ==
    IF ts = {} THEN 0
    ELSE LET t == CHOOSE x \in ts : TRUE
         IN  Increments(t) + TotalIncrements(ts \ {t})

AllDone == \A t \in Tasks : pc[t].at = "done"

\* C20: the stored counter always equals the number of increments the tasks
\* have performed, so none is lost; when every task has finished it equals
\* the number of tasks times the number of iterations.
C20_NoLostIncrement ==
    CounterKey \in DOMAIN storage =>
        /\ storage[CounterKey].data.items["counter"] = TotalIncrements(Tasks)
        /\ AllDone => storage[CounterKey].data.items["counter"]
                          = Cardinality(Tasks) * Iterations

\* Every task has run all its iterations.
C20_Witness ==
    /\ AllDone
    /\ CounterKey \in DOMAIN storage
    /\ last.op = "set_state_data"
    /\ last.out = "return"

(***************************************************************************)
(* Claim C21                                                               *)
(***************************************************************************)
\* The record FSMContext's calls read for the update, as a set.
CtxRecords(update) ==
    {storage[k] : k \in {FSMContext_get_key(update)} \cap DOMAIN storage}

\* C21: set_state_data(update, state, **data) with a state completes and
\* leaves a record with exactly that state and that data, whose created_at
\* is the old record's when there was one and now otherwise; with state
\* None it completes and leaves no record.
C21_SetStateData ==
    [][\A update \in Updates, data \in CtxKwargs :
          /\ \A state \in CtxStateArgs \ {NoneStr} :
                FSMContext_set_state_data(update, state, data) =>
                    /\ last'.out = "return"
                    /\ CtxRecords(update)' # {}
                    /\ \A new \in CtxRecords(update)' :
                          /\ new.state = state
                          /\ new.data = data.items
                          /\ \A old \in CtxRecords(update) :
                                new.created_at = old.created_at
                          /\ CtxRecords(update) = {} => new.created_at = now
          /\ FSMContext_set_state_data(update, NoneStr, data) =>
                    /\ last'.out = "return"
                    /\ CtxRecords(update)' = {}]_vars

(***************************************************************************)
(* Storage key derivation                                                  *)
(*   An update is a function from the attributes it has to their values:   *)
(*   `hasattr(u, a)` is a \in DOMAIN u, and an attribute may hold None.    *)
(***************************************************************************)
Id(x) == [id |-> x]

Restrict(f, D) == [x \in D |-> f[x]]

\* The nested message of a callback query: from_user and chat may be None,
\* and chat may be missing altogether.
NestedMessages ==
    LET full == [from_user : {None, Id("u2")}, chat : {None, Id("c2")}]
    IN  full \cup {Restrict(m, {"from_user"}) : m \in full}

UpdateShapes ==
    LET full == [from_user : {None, Id("u1")}, chat : {None, Id("c1")},
                 message : {None} \cup NestedMessages]
    IN  UNION {{Restrict(u, D) : u \in full} :
                  D \in SUBSET {"from_user", "chat", "message"}}

\* client.me.id of a started client
ClientId == "me"

Has(u, a) == a \in DOMAIN u /\ u[a] # None

\* create_key(parsed_update, client)
create_key(u) ==
    LET user_id == IF Has(u, "from_user") THEN u.from_user.id
                   ELSE IF Has(u, "message") /\ u.message.from_user # None
                        THEN u.message.from_user.id
                   ELSE "unknown"
        chat_id == IF Has(u, "chat") THEN u.chat.id
                   ELSE IF Has(u, "message") /\ Has(u.message, "chat")
                        THEN u.message.chat.id
                   ELSE "unknown"
    IN  Return([key |-> <<ClientId, user_id, chat_id>>])

\* FSMContext._get_key(update) on any update: `.id` of None and a missing
\* attribute both raise AttributeError.
Ctx_get_key(u) ==
    LET chat == IF "chat" \in DOMAIN u THEN u.chat
                ELSE IF Has(u, "message") /\ "chat" \in DOMAIN u.message
                     THEN u.message.chat
                ELSE None
        user == IF "from_user" \in DOMAIN u THEN u.from_user ELSE None
    IN  IF chat = None \/ user = None THEN Raise("AttributeError")
        ELSE Return([key |-> <<chat.id, user.id>>])

\* A key derivation leaves every store alone.
KeyStep(op, u, res) ==
    /\ last' = Call(op, <<>>, [update |-> u], res)
    /\ UNCHANGED <<backend, now, storage, mem_lock, key_prefix, redis, mongo,
                   pc, handle,
         mm, pool, helpers, disp>>

PatchHelper_create_key(u) == KeyStep("create_key", u, create_key(u))

FSMContext__get_key(u) == KeyStep("_get_key", u, Ctx_get_key(u))

NextKey ==
    \E u \in UpdateShapes :
        \/ PatchHelper_create_key(u)
        \/ FSMContext__get_key(u)

SpecKey == Init /\ [][NextKey]_vars

(***************************************************************************)
(* Claim C22                                                               *)
(***************************************************************************)
\* The identity the rule gives for attribute a of update u: the update's
\* own, else its nested message's, else the sentinel.
IdentityOf(u, a) ==
    IF Has(u, a) THEN u[a].id
    ELSE IF Has(u, "message") /\ Has(u.message, a) THEN u.message[a].id
    ELSE "unknown"

\* C22: for every update, create_key and FSMContext._get_key both return,
\* and the key each returns is made of the client's identity, the user and
\* the chat the rule gives, "unknown" standing for one that is missing.
C22_KeyDerivation ==
    [][\A u \in UpdateShapes :
          (PatchHelper_create_key(u) \/ FSMContext__get_key(u)) =>
              /\ last'.out = "return"
              /\ last'.val.key = <<ClientId, IdentityOf(u, "from_user"),
                                   IdentityOf(u, "chat")>>]_vars

(***************************************************************************)
(* Backend failures                                                        *)
(*   A call is made with a fault: the client command that fails with the   *)
(*   driver's own exception (RedisError, PyMongoError) when the call       *)
(*   reaches it, or "none". A failed command changes nothing. `met` tells  *)
(*   whether the call reached the fault or read corrupted metadata.        *)
(***************************************************************************)
RedisFaults == {"none", "hgetall", "hget", "execute", "get", "scan_iter"}
MongoFaults == {"none", "find_one", "insert_one", "update_one", "delete_one",
                "delete_many", "find"}

Faulty(res, rk, coll, met) == [res |-> res, redis |-> rk, mongo |-> coll, met |-> met]

\* Another writer damages the metadata of a conversation: the Redis hash
\* loses `state` and `updated_at`, the document everything but its key.
Corrupt(key) ==
    /\ backend \in {"redis", "mongo"}
    /\ redis' = IF backend = "redis"
                THEN Put(redis, Redis_get_key(key_prefix, META_PREFIX, key),
                         [type |-> "hash", val |-> [created_at |-> IsoFormat(now)],
                          ttl_at |-> NoneTime])
                ELSE redis
    /\ mongo' = IF backend = "mongo" THEN Put(mongo, key, [key |-> key]) ELSE mongo
    /\ last' = Call("corrupt", key, None, Return(None))
    /\ UNCHANGED <<backend, now, storage, mem_lock, key_prefix, pc, handle,
         mm, pool, helpers, disp>>

\* _get_state_meta(key) raised at `raise StateCorruptedError(...)`
RedisCorrupted(rk, kp, key) ==
    /\ Redis_get_state_meta(rk, kp, key).out = "raise"
    /\ Redis_get_state_meta(rk, kp, key).exc # "StateNotFoundError"

\* RedisStorage.get_or_create_state: `except RedisError` guards the lookup
\* in the try block only, not _set_state_meta in the StateNotFoundError
\* handler.
RedisF_get_or_create_state(rk, kp, key, default_state, ttl, t, fault) ==
    LET meta == Redis_get_state_meta(rk, kp, key)
        normal == Redis_get_or_create_state(rk, kp, key, default_state, ttl, t)
    IN  IF key = EmptyKey THEN Faulty(normal.res, rk, <<>>, FALSE)
        ELSE IF fault = "hgetall" THEN Faulty(Raise("StorageError"), rk, <<>>, TRUE)
        ELSE IF meta.out = "raise" /\ meta.exc = "StateNotFoundError"
                /\ fault \in {"hget", "execute"}
             THEN Faulty(Raise("RedisError"), rk, <<>>, TRUE)
        ELSE Faulty(normal.res, normal.redis, <<>>, RedisCorrupted(rk, kp, key))

RedisF_set_state(rk, kp, state, key, ttl, t, fault) ==
    LET normal == Redis_set_state(rk, kp, state, key, ttl, t)
    IN  IF state # "" /\ fault \in {"hget", "execute"}
        THEN Faulty(Raise("StorageError"), rk, <<>>, TRUE)
        ELSE Faulty(normal.res, normal.redis, <<>>, FALSE)

\* RedisStorage.set_data: the data pipeline, then `if ttl is not None` the
\* metadata is read and rewritten.
RedisF_set_data(rk, kp, data, key, ttl, t, fault) ==
    LET normal == Redis_set_data(rk, kp, data, key, ttl, t)
        valid == data.kind = "dict" /\ JsonSize(data.items) <= MAX_DATA_SIZE
        written == Redis_set_data_execute(rk, kp, data.items, key, ttl, t)
        meta == Redis_get_state_meta(written, kp, key)
    IN  IF ~valid THEN Faulty(normal.res, rk, <<>>, FALSE)
        ELSE IF fault = "execute" THEN Faulty(Raise("StorageError"), rk, <<>>, TRUE)
        ELSE IF ttl = NoneTime THEN Faulty(normal.res, normal.redis, <<>>, FALSE)
        ELSE IF fault = "hgetall"
             THEN Faulty(Raise("StorageError"), written, <<>>, TRUE)
        ELSE IF meta.out = "return" /\ fault = "hget"
             THEN Faulty(Raise("StorageError"), written, <<>>, TRUE)
        ELSE Faulty(normal.res, normal.redis, <<>>, RedisCorrupted(written, kp, key))

RedisF_get_data(rk, kp, key, fault) ==
    IF fault = "get" THEN Faulty(Raise("StorageError"), rk, <<>>, TRUE)
    ELSE Faulty(Redis_get_data(rk, kp, key), rk, <<>>, FALSE)

\* RedisStorage.get_state_data: `except Exception` wraps everything but
\* StateNotFoundError.
RedisF_get_state_data(rk, kp, key, fault) ==
    LET meta == Redis_get_state_meta(rk, kp, key)
    IN  IF fault = "hgetall" THEN Faulty(Raise("StorageError"), rk, <<>>, TRUE)
        ELSE IF meta.out = "return" /\ fault = "get"
             THEN Faulty(Raise("StorageError"), rk, <<>>, TRUE)
        ELSE Faulty(Redis_get_state_data(rk, kp, key), rk, <<>>,
                    RedisCorrupted(rk, kp, key))

RedisF_finish_state(rk, kp, key, fault) ==
    IF fault = "execute" THEN Faulty(Raise("StorageError"), rk, <<>>, TRUE)
    ELSE Faulty(Return(None), Redis_finish_state(rk, kp, key).redis, <<>>, FALSE)

\* RedisStorage.list_states: a failing scan is wrapped, and so is a
\* failure inside get_state_data.
RedisF_list_states(rk, kp, state, created_before, fault) ==
    LET listed == {Split2Last(x) : x \in SCAN(rk, Redis_get_key(kp, META_PREFIX, <<>>))}
    IN  IF fault = "scan_iter" THEN Faulty(Raise("StorageError"), rk, <<>>, TRUE)
        ELSE IF listed # {} /\ fault \in {"hgetall", "get"}
             THEN Faulty(Raise("StorageError"), rk, <<>>, TRUE)
        ELSE Faulty(Redis_list_states(rk, kp, state, created_before), rk, <<>>,
                    \E k \in listed : RedisCorrupted(rk, kp, k))

\* A document that lacks a field get_state_data or get_or_create_state
\* reads with doc[...].
MongoCorrupted(coll, key) ==
    key \in DOMAIN coll /\ ~({"state", "created_at", "updated_at"} \subseteq DOMAIN coll[key])

\* MongoStorage.get_or_create_state: _get_state_document wraps a failing
\* find_one; `doc['state']` is read with no handler for KeyError.
MongoF_get_or_create_state(coll, key, default_state, ttl, t, fault) ==
    LET normal == Mongo_get_or_create_state(coll, key, default_state, ttl, t)
    IN  IF key = EmptyKey THEN Faulty(normal.res, <<>>, coll, FALSE)
        ELSE IF fault = "find_one" THEN Faulty(Raise("StorageError"), <<>>, coll, TRUE)
        ELSE IF normal.res.out = "return" /\ fault = "insert_one"
                /\ key \notin DOMAIN coll
             THEN Faulty(Raise("StorageError"), <<>>, coll, TRUE)
        ELSE Faulty(normal.res, <<>>, normal.mongo,
                    "state" \notin DOMAIN (IF key \in DOMAIN coll THEN coll[key]
                                           ELSE [state |-> ""]))

\* set_state and set_data reach update_one only after `datetime.now(...)`.
MongoF_set_state(coll, state, key, ttl, t, fault) ==
    LET normal == Mongo_set_state(coll, state, key, ttl, t)
    IN  IF normal.res.out = "return" /\ fault = "update_one"
        THEN Faulty(Raise("StorageError"), <<>>, coll, TRUE)
        ELSE Faulty(normal.res, <<>>, normal.mongo, FALSE)

MongoF_set_data(coll, data, key, ttl, t, fault) ==
    LET normal == Mongo_set_data(coll, data, key, ttl, t)
    IN  IF Mongo_now(t).out = "return" /\ normal.res.exc # "StateValidationError"
           /\ fault = "update_one"
        THEN Faulty(Raise("StorageError"), <<>>, coll, TRUE)
        ELSE Faulty(normal.res, <<>>, normal.mongo, FALSE)

MongoF_get_data(coll, key, t, fault) ==
    LET normal == Mongo_get_data(coll, key, t)
    IN  IF fault = "find_one" THEN Faulty(Raise("StorageError"), <<>>, coll, TRUE)
        ELSE Faulty(normal.res, <<>>, normal.mongo, FALSE)

\* MongoStorage.get_state_data: KeyError becomes StateValidationError.
MongoF_get_state_data(coll, key, t, fault) ==
    LET normal == Mongo_get_state_data(coll, key, t)
    IN  IF fault = "find_one" THEN Faulty(Raise("StorageError"), <<>>, coll, TRUE)
        ELSE Faulty(normal.res, <<>>, normal.mongo,
                    normal.res.exc = "StateValidationError")

MongoF_finish_state(coll, key, fault) ==
    LET normal == Mongo_finish_state(coll, key)
    IN  IF fault = "delete_one" THEN Faulty(Raise("StorageError"), <<>>, coll, TRUE)
        ELSE Faulty(normal.res, <<>>, normal.mongo, FALSE)

\* cleanup_expired evaluates `datetime.now(...)` before delete_many is called.
MongoF_cleanup_expired(coll, t, fault) ==
    LET normal == Mongo_cleanup_expired(coll, t)
    IN  IF Mongo_now(t).out = "return" /\ fault = "delete_many"
        THEN Faulty(Raise("StorageError"), <<>>, coll, TRUE)
        ELSE Faulty(normal.res, <<>>, normal.mongo, FALSE)

\* collection.find(query, projection=['key']): the server matches a field
\* the document lacks against nothing.
MongoF_list_states(coll, state, created_before, fault) ==
    IF fault = "find" THEN Faulty(Raise("StorageError"), <<>>, coll, TRUE)
    ELSE Faulty(Return([keys |-> {k \in DOMAIN coll :
                    /\ state = NoneStr
                       \/ ("state" \in DOMAIN coll[k] /\ coll[k].state = state)
                    /\ created_before = NoneTime
                       \/ ("created_at" \in DOMAIN coll[k]
                           /\ coll[k].created_at < created_before)}]),
                <<>>, coll, FALSE)

\* A call of the Redis or the document-store backend under a fault.
FaultStep(b, op, key, fault, r) ==
    /\ backend = b
    /\ redis' = IF b = "redis" THEN r.redis ELSE redis
    /\ mongo' = IF b = "mongo" THEN r.mongo ELSE mongo
    /\ last' = Call(op, key, [fault |-> fault, met |-> r.met], r.res)
    /\ UNCHANGED <<backend, now, storage, mem_lock, key_prefix, pc, handle,
         mm, pool, helpers, disp>>

FaultOps == {"get_or_create_state", "set_state", "set_data", "get_data",
             "get_state_data", "finish_state", "cleanup_expired", "list_states"}

RedisFaultyCall(op, key, ttl, fault) ==
    FaultStep("redis", op, key, fault,
        CASE op = "get_or_create_state" ->
                 RedisF_get_or_create_state(redis, key_prefix, key, NoneStr, ttl, now, fault)
          [] op = "set_state" ->
                 RedisF_set_state(redis, key_prefix, "a", key, ttl, now, fault)
          [] op = "set_data" ->
                 RedisF_set_data(redis, key_prefix, Dict("f" :> 1), key, ttl, now, fault)
          [] op = "get_data" -> RedisF_get_data(redis, key_prefix, key, fault)
          [] op = "get_state_data" -> RedisF_get_state_data(redis, key_prefix, key, fault)
          [] op = "finish_state" -> RedisF_finish_state(redis, key_prefix, key, fault)
          [] op = "cleanup_expired" -> Faulty(Redis_cleanup_expired, redis, <<>>, FALSE)
          [] op = "list_states" ->
                 RedisF_list_states(redis, key_prefix, NoneStr, NoneTime, fault))

MongoFaultyCall(op, key, ttl, fault) ==
    FaultStep("mongo", op, key, fault,
        CASE op = "get_or_create_state" ->
                 MongoF_get_or_create_state(mongo, key, NoneStr, ttl, now, fault)
          [] op = "set_state" -> MongoF_set_state(mongo, "a", key, ttl, now, fault)
          [] op = "set_data" -> MongoF_set_data(mongo, Dict("f" :> 1), key, ttl, now, fault)
          [] op = "get_data" -> MongoF_get_data(mongo, key, now, fault)
          [] op = "get_state_data" -> MongoF_get_state_data(mongo, key, now, fault)
          [] op = "finish_state" -> MongoF_finish_state(mongo, key, fault)
          [] op = "cleanup_expired" -> MongoF_cleanup_expired(mongo, now, fault)
          [] op = "list_states" -> MongoF_list_states(mongo, NoneStr, NoneTime, fault))

\* One conversation, with and without a TTL.
FaultKeys == {<<"k1">>}
FaultTTLs == {NoneTime, MaxTTL}

NextFault ==
    \/ Tick
    \/ \E key \in FaultKeys : Corrupt(key)
    \/ \E op \in FaultOps, key \in FaultKeys, ttl \in FaultTTLs, fault \in RedisFaults :
          RedisFaultyCall(op, key, ttl, fault)
    \/ \E op \in FaultOps, key \in FaultKeys, ttl \in FaultTTLs, fault \in MongoFaults :
          MongoFaultyCall(op, key, ttl, fault)

SpecFault == Init /\ [][NextFault]_vars

(***************************************************************************)
(* Claim C23                                                               *)
(***************************************************************************)
StorageErrors == {"StorageError", "StateNotFoundError", "StateValidationError"}

\* C23: a call of the Redis or the document-store backend that meets a
\* failing client command or corrupted metadata raises StorageError or one
\* of its subtypes.
C23_NoRawFailure ==
    (last.op \in FaultOps /\ last.arg.met) =>
        (last.out = "raise" /\ last.exc \in StorageErrors)

(***************************************************************************)
(* MiddlewareManager                                                       *)
(***************************************************************************)
HandlerTypes == {"MessageHandler", "CallbackQueryHandler"}

\* A middleware object: its class, what its __call__ does around call_next,
\* and the class attribute handler_type.
\*   "plain"   : pre; result = await call_next(...); post; return result
\*   "finally" : pre; try: return await call_next(...) finally: post
\*   "modify"  : update.modified = True; result = await call_next(...);
\*               return f"modified_{result}"
Middleware(class, kind) == [class |-> class, kind |-> kind, handler_type |-> "MessageHandler"]

Middlewares == {Middleware("Middleware1", "plain"), Middleware("Middleware2", "plain"),
                Middleware("CleanupMiddleware", "finally"),
                Middleware("ModifyMiddleware", "modify")}

\* What register is given: handler types and middlewares, valid or not.
NotAHandler == "int"
NotAMiddleware == [class |-> "function", kind |-> "plain", handler_type |-> NoneStr]

\* The final handler returns "test_result" or raises ValueError.
HandlerKinds == {"returns", "raises"}

ListOf(registry, handler_type) ==
    IF handler_type \in DOMAIN registry THEN registry[handler_type] ELSE <<>>

\* register(handler_type, middleware): [res, registry]
MM_register(registry, handler_type, middleware) ==
    IF handler_type \notin HandlerTypes
    THEN [res |-> Raise("TypeError"), registry |-> registry]
    ELSE IF middleware \notin Middlewares
    THEN [res |-> Raise("TypeError"), registry |-> registry]
    ELSE LET list == ListOf(registry, handler_type)
             existing == {i \in DOMAIN list : list[i].class = middleware.class}
         IN  [res |-> Return(None),
              registry |-> Put(registry, handler_type,
                               IF existing = {} THEN Append(list, middleware) ELSE list)]

\* unregister(handler_type, middleware): `in` and `remove` compare with
\* BaseMiddleware.__eq__, which holds of two middlewares with the same
\* handler_type; the first such entry is removed.
MM_unregister(registry, handler_type, middleware) ==
    LET list == ListOf(registry, handler_type)
        equal == {i \in DOMAIN list : list[i].handler_type = middleware.handler_type}
        first == CHOOSE i \in equal : \A j \in equal : i <= j
        rest == SubSeq(list, 1, first - 1) \o SubSeq(list, first + 1, Len(list))
    IN  IF handler_type \notin DOMAIN registry \/ equal = {} THEN registry
        ELSE IF rest = <<>> THEN Remove(registry, handler_type)
        ELSE Put(registry, handler_type, rest)

\* get_middlewares(handler_type): the list of the type, then the list
\* under the key None.
MM_get_middlewares_Reversed(registry, handler_type) ==
    LET list == ListOf(registry, handler_type) \o ListOf(registry, NoneStr)
    IN  [i \in 1..Len(list) |-> list[Len(list) + 1 - i]]

MM_get_middlewares(registry, handler_type) ==
    ListOf(registry, handler_type) \o ListOf(registry, NoneStr)

\* The result of a coroutine and what was executed while it ran.
Ran(res, trace) == [res |-> res, trace |-> trace]

\* call_next(client, update): the final handler, which sees whether a
\* middleware modified the update.
FinalHandler(u, handler) ==
    Ran(IF handler = "returns" THEN Return(<<"test_result">>) ELSE Raise("ValueError"),
        <<<<"handler", u>>>>)

\* invoke_middleware(middleware_index, c, u): middleware i with a
\* next_middleware that invokes middleware i + 1; an exception is re-raised.
RECURSIVE MM_invoke_middleware(_, _, _, _)
MM_invoke_middleware(i, middlewares, u, handler) ==
    IF i > Len(middlewares) THEN FinalHandler(u, handler)
    ELSE LET m == middlewares[i]
             inner == MM_invoke_middleware(
                          i + 1, middlewares,
                          IF m.kind = "modify" THEN "modified" ELSE u, handler)
             pre == <<<<"pre", m.class>>>>
             post == <<<<"post", m.class>>>>
         IN  IF inner.res.out = "raise"
             THEN Ran(inner.res,
                      pre \o inner.trace \o (IF m.kind = "finally" THEN post ELSE <<>>))
             ELSE Ran(IF m.kind = "modify"
                      THEN Return(<<"modified">> \o inner.res.val) ELSE inner.res,
                      pre \o inner.trace \o post)

\* process_update(handler_type, client, update, call_next)
MM_process_update_Swallow(registry, handler_type, handler) ==
    LET ran == MM_invoke_middleware(1, MM_get_middlewares(registry, handler_type),
                                    "original", handler)
    IN  IF ran.res.out = "raise" THEN Ran(Return(<<>>), ran.trace) ELSE ran

MM_process_update(registry, handler_type, handler) ==
    LET middlewares == MM_get_middlewares(registry, handler_type)
    IN  IF middlewares = <<>> THEN FinalHandler("original", handler)
        ELSE MM_invoke_middleware(1, middlewares, "original", handler)

MMStep(op, arg, res, registry) ==
    /\ mm' = registry
    /\ last' = Call(op, <<>>, arg, res)
    /\ UNCHANGED <<backend, now, storage, mem_lock, key_prefix, redis, mongo, pc,
                   handle, pool, helpers, disp>>

MiddlewareManager_register(handler_type, middleware) ==
    LET r == MM_register(mm, handler_type, middleware)
    IN  MMStep("register", [handler_type |-> handler_type, middleware |-> middleware],
               r.res, r.registry)

MiddlewareManager_unregister(handler_type, middleware) ==
    MMStep("unregister", [handler_type |-> handler_type, middleware |-> middleware],
           Return(None), MM_unregister(mm, handler_type, middleware))

MiddlewareManager_clear == MMStep("clear", None, Return(None), <<>>)

MiddlewareManager_process_update(handler_type, handler) ==
    LET ran == MM_process_update(mm, handler_type, handler)
    IN  MMStep("process_update", [handler_type |-> handler_type, handler |-> handler],
               [ran.res EXCEPT !.val = [value |-> ran.res.val, trace |-> ran.trace]],
               mm)

\* The longest list of middlewares an application registers for one type.
MaxChain == 3

NextMM ==
    \/ \E handler_type \in HandlerTypes \cup {NotAHandler},
          middleware \in Middlewares \cup {NotAMiddleware} :
          /\ Len(ListOf(mm, handler_type)) < MaxChain
          /\ MiddlewareManager_register(handler_type, middleware)
    \/ \E handler_type \in HandlerTypes, middleware \in Middlewares :
          MiddlewareManager_unregister(handler_type, middleware)
    \/ MiddlewareManager_clear
    \/ \E handler_type \in HandlerTypes, handler \in HandlerKinds :
          MiddlewareManager_process_update(handler_type, handler)

\* The middleware, dispatcher and helper code below never calls the FSM
\* storage: one backend stands for all.
InitApp == Init /\ backend = "memory"

SpecMM == InitApp /\ [][NextMM]_vars

(***************************************************************************)
(* Claims C24, C25: the middleware chain                                   *)
(***************************************************************************)
Reversed(s) == [i \in 1..Len(s) |-> s[Len(s) + 1 - i]]
Before(list) == [i \in 1..Len(list) |-> <<"pre", list[i].class>>]
After(list) == [i \in 1..Len(list) |-> <<"post", list[i].class>>]
IsModify(m) == m.kind = "modify"
IsFinally(m) == m.kind = "finally"

\* The update the handler sees under the middlewares of list.
Seen(list) == IF SelectSeq(list, IsModify) # <<>> THEN "modified" ELSE "original"

\* The handler's result, changed once by every modifying middleware.
RECURSIVE Modified(_, _)
Modified(n, v) == IF n = 0 THEN v ELSE <<"modified">> \o Modified(n - 1, v)

\* C24: process_update with a handler that returns runs the before-code of
\* the middlewares registered for the handler type in registration order,
\* then the handler once, then their after-code in reverse order, and
\* returns what the outermost middleware returns; with none registered the
\* handler alone runs.
C24_ChainOrder ==
    (last.op = "process_update" /\ last.arg.handler = "returns") =>
        LET list == ListOf(mm, last.arg.handler_type)
        IN  /\ last.out = "return"
            /\ last.val.trace = Before(list) \o <<<<"handler", Seen(list)>>>>
                                    \o Reversed(After(list))
            /\ last.val.value = Modified(Len(SelectSeq(list, IsModify)), <<"test_result">>)

\* Three middlewares are registered, and process_update went through them.
C24_Witness ==
    /\ last.op = "process_update"
    /\ last.arg.handler = "returns"
    /\ Len(ListOf(mm, last.arg.handler_type)) = 3
    /\ Len(last.val.trace) = 7

PoolMiddleware(class, types, does) == [class |-> class, types |-> types, does |-> does]

PoolMiddlewares ==
    {PoolMiddleware("CheckDigitMiddleware", {"MessageHandler"}, "store"),
     PoolMiddleware("SkipDigitMiddleware", {"MessageHandler"}, "skip"),
     PoolMiddleware("OnCallbackQueryMiddleware", {"CallbackQueryHandler"}, "store")}

\* The handlers of the dispatcher's groups, in group order.
Handler(type, callback) == [type |-> type, callback |-> callback]

GroupArgs == {<<>>, <<Handler("MessageHandler", "on_message")>>,
              <<Handler("MessageHandler", "on_message"),
                Handler("CallbackQueryHandler", "on_callback")>>}

\* PatchManager.include_middleware / include_outer_middleware / set_storage
PatchManager_include_middleware(middleware) ==
    /\ pool' = [pool EXCEPT !.middlewares = Append(@, middleware)]
    /\ last' = Call("include_middleware", <<>>, [middleware |-> middleware], Return(None))
    /\ UNCHANGED <<backend, now, storage, mem_lock, key_prefix, redis, mongo, pc,
                   handle, mm, helpers, disp>>

PatchManager_include_outer_middleware(middleware) ==
    /\ pool' = [pool EXCEPT !.outer_middlewares = Append(@, middleware)]
    /\ last' = Call("include_outer_middleware", <<>>, [middleware |-> middleware],
                    Return(None))
    /\ UNCHANGED <<backend, now, storage, mem_lock, key_prefix, redis, mongo, pc,
                   handle, mm, helpers, disp>>

PatchManager_set_storage(fsm_storage) ==
    /\ pool' = [pool EXCEPT !.fsm_storage = fsm_storage]
    /\ last' = Call("set_storage", <<>>, [storage |-> fsm_storage], Return(None))
    /\ UNCHANGED <<backend, now, storage, mem_lock, key_prefix, redis, mongo, pc,
                   handle, mm, helpers, disp>>

\* `PatchDataPool.include_helper_to_pool(parsed_updates, patch_helper)`:
\* PatchDataPool is the dataclass, not global_pool, so the function is
\* called unbound with self = parsed_updates and update = patch_helper, and
\* the parameter patch_helper is missing.
ClassCall_include_helper_to_pool == Raise("TypeError")

\* _process_update(update, parsed_updates, handler_type, users, chats):
\* the helper is created and `include_helper_to_pool` is called before the
\* try block, so what the call raises leaves the method at once and nothing
\* is executed: not the FSM lookup, the loop over the outer middlewares or
\* the loop over the handlers of the groups, which all follow the call.
Disp_process_update(p, handler_type, groups) ==
    Ran(ClassCall_include_helper_to_pool, <<>>)

\* _process_packet awaits _process_update; the PatchHelper it created is
\* garbage when it ends.
PatchedDispatcher_process_update(handler_type, groups) ==
    LET ran == Disp_process_update(pool, handler_type, groups)
    IN  /\ last' = Call("_process_update", <<>>,
                        [handler_type |-> handler_type, groups |-> groups],
                        [ran.res EXCEPT !.val = [trace |-> ran.trace]])
        /\ UNCHANGED <<backend, now, storage, mem_lock, key_prefix, redis, mongo, pc,
                       handle, mm, pool, helpers, disp>>

NextDisp ==
    \/ \E middleware \in PoolMiddlewares :
          /\ Len(pool.middlewares) < MaxChain
          /\ PatchManager_include_middleware(middleware)
    \/ \E middleware \in PoolMiddlewares :
          /\ Len(pool.outer_middlewares) < MaxChain
          /\ PatchManager_include_outer_middleware(middleware)
    \/ \E fsm_storage \in {NoneStr, "MemoryStorage"} : PatchManager_set_storage(fsm_storage)
    \/ \E handler_type \in HandlerTypes, groups \in GroupArgs :
          PatchedDispatcher_process_update(handler_type, groups)

SpecDisp == InitApp /\ [][NextDisp]_vars

(***************************************************************************)
(* Claims C26, C27: the dispatch pipeline                                  *)
(***************************************************************************)
Matching(list, handler_type) ==
    SelectSeq(list, LAMBDA m : handler_type \in m.types)

Skips(m) == m.does = "skip"

Ran_by(kind, list) == [i \in 1..Len(list) |-> <<kind, list[i].class>>]

HandlersOf(groups, handler_type) ==
    SelectSeq(groups, LAMBDA h : h.type = handler_type)

C27_PipelineOrder ==
    (/\ last.op = "_process_update"
     /\ SelectSeq(pool.outer_middlewares \o pool.middlewares, Skips) = <<>>)
    => last.val.trace =
           Ran_by("outer", Matching(pool.outer_middlewares, last.arg.handler_type))
           \o Ran_by("middleware", Matching(pool.middlewares, last.arg.handler_type))
           \o [i \in 1..Len(HandlersOf(last.arg.groups, last.arg.handler_type)) |->
                  <<"handler", HandlersOf(last.arg.groups, last.arg.handler_type)[i].callback>>]

(***************************************************************************)
(* PatchHelper and the update pool                                         *)
(***************************************************************************)
MaxHelpers == 2
HelperIds == 1..MaxHelpers
PoolUpdates == {"update1", "update2"}
DataKeys == {"is_digit"}
DataValues == {"yes", "no"}

\* A reference to a PatchHelper, which has __slots__ and no __weakref__, or
\* to an object of a class that allows weak references.
HelperRef(id) == [type |-> "PatchHelper", id |-> id]
OtherRef(id) == [type |-> "object", id |-> id]

\* PatchHelper(): _data = {}, state = "*"
NewHelper == [data |-> EmptyDict, state |-> "*"]

\* `patch_helper.data`: a copy of _data
Helper_data(hs, id) == hs[id].data

\* `patch_helper.data[k]`
Helper_data_getitem(hs, id, k) ==
    IF k \in DOMAIN Helper_data(hs, id) THEN Return([value |-> Helper_data(hs, id)[k]])
    ELSE Raise("KeyError")

\* `patch_helper.data[k] = v`: the item is set in the copy the property
\* returned; _data is not touched.
Helper_data_setitem(hs, id, k, v) == hs

\* `patch_helper[k] = v` and patch_helper.update_data(k=v)
Helper_setitem(hs, id, k, v) == [hs EXCEPT ![id].data = (k :> v) @@ @]

\* `del patch_helper[k]`: [res, helpers]
Helper_delitem(hs, id, k) ==
    IF k \in DOMAIN hs[id].data
    THEN [res |-> Return(None), helpers |-> [hs EXCEPT ![id].data = Remove(@, k)]]
    ELSE [res |-> Raise("KeyError"), helpers |-> hs]

\* global_pool.include_helper_to_pool(update, patch_helper): the pool is a
\* WeakValueDictionary, which takes a weak reference to the value.
Pool_include_helper_to_pool(p, update, ref) ==
    IF ref.type = "PatchHelper" THEN [res |-> Raise("TypeError"), pool |-> p]
    ELSE [res |-> Return(None),
          pool |-> [p EXCEPT !.update_pool = Put(@, update, ref)]]

\* exclude_helper_from_pool(update): KeyError is suppressed
Pool_exclude_helper_from_pool(p, update) ==
    [p EXCEPT !.update_pool = Remove(@, update)]

\* get_helper_from_pool(update): the helper or None
Pool_get_helper_from_pool(p, update) ==
    IF update \in DOMAIN p.update_pool THEN p.update_pool[update] ELSE None

HelperStep(op, arg, res, hs, p) ==
    /\ helpers' = hs
    /\ pool' = p
    /\ last' = Call(op, <<>>, arg, res)
    /\ UNCHANGED <<backend, now, storage, mem_lock, key_prefix, redis, mongo, pc,
                   handle, mm, disp>>

\* The application keeps the helpers it creates.
FreeIds == HelperIds \ DOMAIN helpers

PatchHelper_new ==
    /\ FreeIds # {}
    /\ LET id == CHOOSE i \in FreeIds : \A j \in FreeIds : i <= j
       IN  HelperStep("PatchHelper", None, Return(HelperRef(id)),
                      (id :> NewHelper) @@ helpers, pool)

PatchHelper_data_setitem(id, k, v) ==
    HelperStep("data_setitem", [helper |-> id, k |-> k, v |-> v], Return(None),
               Helper_data_setitem(helpers, id, k, v), pool)

PatchHelper_data_getitem(id, k) ==
    HelperStep("data_getitem", [helper |-> id, k |-> k],
               Helper_data_getitem(helpers, id, k), helpers, pool)

PatchHelper_setitem(id, k, v) ==
    HelperStep("setitem", [helper |-> id, k |-> k, v |-> v], Return(None),
               Helper_setitem(helpers, id, k, v), pool)

PatchHelper_update_data(id, k, v) ==
    HelperStep("update_data", [helper |-> id, k |-> k, v |-> v], Return(None),
               Helper_setitem(helpers, id, k, v), pool)

PatchHelper_delitem(id, k) ==
    LET r == Helper_delitem(helpers, id, k)
    IN  HelperStep("delitem", [helper |-> id, k |-> k], r.res, r.helpers, pool)

PatchDataPool_include_helper_to_pool(update, ref) ==
    LET r == Pool_include_helper_to_pool(pool, update, ref)
    IN  HelperStep("include_helper_to_pool", [update |-> update, helper |-> ref],
                   r.res, helpers, r.pool)

PatchDataPool_exclude_helper_from_pool(update) ==
    HelperStep("exclude_helper_from_pool", [update |-> update], Return(None),
               helpers, Pool_exclude_helper_from_pool(pool, update))

PatchDataPool_get_helper_from_pool(update) ==
    HelperStep("get_helper_from_pool", [update |-> update],
               Return(Pool_get_helper_from_pool(pool, update)), helpers, pool)

PatchDataPool_clear == HelperStep("clear", None, Return(None), helpers, EmptyPool)

\* PatchHelper.get_from_pool(update): the pooled helper, or cls()
PatchHelper_get_from_pool(update) ==
    LET helper == Pool_get_helper_from_pool(pool, update)
        id == CHOOSE i \in FreeIds : \A j \in FreeIds : i <= j
    IN  IF helper # None
        THEN HelperStep("get_from_pool", [update |-> update], Return(helper),
                        helpers, pool)
        ELSE /\ FreeIds # {}
             /\ HelperStep("get_from_pool", [update |-> update], Return(HelperRef(id)),
                           (id :> NewHelper) @@ helpers, pool)

NextPool ==
    \/ PatchHelper_new
    \/ \E id \in DOMAIN helpers, k \in DataKeys, v \in DataValues :
          \/ PatchHelper_data_setitem(id, k, v)
          \/ PatchHelper_setitem(id, k, v)
          \/ PatchHelper_update_data(id, k, v)
          \/ PatchHelper_data_getitem(id, k)
          \/ PatchHelper_delitem(id, k)
    \/ \E update \in PoolUpdates :
          \/ \E ref \in {HelperRef(id) : id \in DOMAIN helpers} \cup {OtherRef(1)} :
                PatchDataPool_include_helper_to_pool(update, ref)
          \/ PatchDataPool_exclude_helper_from_pool(update)
          \/ PatchDataPool_get_helper_from_pool(update)
          \/ PatchHelper_get_from_pool(update)
    \/ PatchDataPool_clear

SpecPool == InitApp /\ [][NextPool]_vars

(***************************************************************************)
(* Claim C28                                                               *)
(***************************************************************************)
\* C28: once `patch_helper.data[k] = v` has run, `patch_helper.data[k]`
\* read from the same helper gives v.
C28_SharedData ==
    [][\A id \in DOMAIN helpers, k \in DataKeys, v \in DataValues :
          PatchHelper_data_setitem(id, k, v) =>
              Helper_data_getitem(helpers', id, k) = Return([value |-> v])]_vars

(***************************************************************************)
(* Claim C29                                                               *)
(***************************************************************************)
\* C29: include_helper_to_pool(update, h) with a PatchHelper h returns, and
\* from then on get_helper_from_pool(update) and get_from_pool(update) give
\* h, until exclude_helper_from_pool(update), clear() or another include
\* for the update; get_from_pool of an update with no helper gives a new
\* PatchHelper; exclude_helper_from_pool of such an update changes nothing.
C29_PoolLookup ==
    [][\A update \in PoolUpdates :
          /\ \A id \in DOMAIN helpers :
                PatchDataPool_include_helper_to_pool(update, HelperRef(id)) =>
                    /\ last'.out = "return"
                    /\ Pool_get_helper_from_pool(pool', update) = HelperRef(id)
          /\ (/\ update \in DOMAIN pool.update_pool
              /\ ~PatchDataPool_exclude_helper_from_pool(update)
              /\ ~PatchDataPool_clear
              /\ last'.op # "include_helper_to_pool")
             => Pool_get_helper_from_pool(pool', update)
                    = Pool_get_helper_from_pool(pool, update)
          /\ PatchHelper_get_from_pool(update) =>
                IF update \in DOMAIN pool.update_pool
                THEN last'.val = pool.update_pool[update]
                ELSE /\ last'.val.type = "PatchHelper"
                     /\ last'.val.id \notin DOMAIN helpers
                     /\ helpers'[last'.val.id] = NewHelper
          /\ (PatchDataPool_exclude_helper_from_pool(update)
              /\ update \notin DOMAIN pool.update_pool)
             => (last'.out = "return" /\ pool' = pool)]_vars

(***************************************************************************)
(* Claim C30                                                               *)
(***************************************************************************)
\* BaseStorage.DEFAULT_TTL = timedelta(days=1), a day being one tick of `now`
DEFAULT_TTL == 1

\* C30: a get_or_create_state call with ttl None that creates the record
\* of a key leaves a record that expires DEFAULT_TTL after its creation.
C30_DefaultTTL ==
    [][\A key \in Keys, default_state \in DefaultStateArgs :
          (/\ \/ MemoryStorage_get_or_create_state(key, default_state, NoneTime)
              \/ RedisStorage_get_or_create_state(key, default_state, NoneTime)
              \/ MongoStorage_get_or_create_state(key, default_state, NoneTime)
           /\ StoredRecords(key) = {}
           /\ last'.out = "return")
          => /\ StoredRecords(key)' # {}
             /\ \A rec \in StoredRecords(key)' : rec.expires_at = now + DEFAULT_TTL]_vars

(***************************************************************************)
(* Claim C31                                                               *)
(***************************************************************************)
\* The two Redis keys of the record of key k.
MetaKey(k) == Redis_get_key(key_prefix, META_PREFIX, k)
DataKey(k) == Redis_get_key(key_prefix, DATA_PREFIX, k)

\* C31: in the Redis backend, after every step, a record whose metadata
\* hash or data string carries an expiry carries the same expiry on the
\* other key, and when Redis drops one of the two keys at its expiry the
\* other key is gone as well: neither key outlives the other.
C31_RedisExpiryBothKeys ==
    [][backend = "redis" =>
          \A k \in Keys :
              /\ ({MetaKey(k), DataKey(k)} \subseteq DOMAIN redis') =>
                     redis'[MetaKey(k)].ttl_at = redis'[DataKey(k)].ttl_at
              /\ (Tick /\ MetaKey(k) \in DOMAIN redis /\ MetaKey(k) \notin DOMAIN redis')
                     => DataKey(k) \notin DOMAIN redis'
              /\ (Tick /\ DataKey(k) \in DOMAIN redis /\ DataKey(k) \notin DOMAIN redis')
                     => MetaKey(k) \notin DOMAIN redis']_vars

(***************************************************************************)
(* RedisStorage.set_state, set_data and finish_state, one await at a time: *)
(* hget, pipeline(), the queued commands, execute(), reset().  Another     *)
(* task runs between two awaits, a command of the client may fail with a   *)
(* RedisError, and a task may be cancelled or its process may die.         *)
(***************************************************************************)
\* A command queued on a pipeline.
Cmd(cmd, k, a) == [cmd |-> cmd, key |-> k, arg |-> a]

\* What one command does to the keyspace, and the reply Redis gives to it.
Command(rk, c, t) ==
    CASE c.cmd = "hset" -> HSET(rk, c.key, c.arg)
      [] c.cmd = "expire" -> EXPIRE(rk, c.key, c.arg, t)
      [] c.cmd = "set" -> SET(rk, c.key, c.arg)
      [] OTHER -> DEL(rk, c.key)

Reply(rk, c) ==
    CASE c.cmd = "hset" ->
             Cardinality((DOMAIN c.arg) \ (IF c.key \in DOMAIN rk
                                           THEN DOMAIN rk[c.key].val ELSE {}))
      [] c.cmd = "set" -> 1
      [] OTHER -> IF c.key \in DOMAIN rk THEN 1 ELSE 0

RECURSIVE Commands(_, _, _)
Commands(rk, cmds, t) ==
    IF cmds = <<>> THEN rk
    ELSE Commands(Command(rk, Head(cmds), t), Tail(cmds), t)

RECURSIVE Replies(_, _, _)
Replies(rk, cmds, t) ==
    IF cmds = <<>> THEN <<>>
    ELSE <<Reply(rk, Head(cmds))>> \o Replies(Command(rk, Head(cmds), t), Tail(cmds), t)

\* An execute() that stops after the first queued command.
Pipeline_execute_FirstOnly(rk, cmds, t) ==
    IF cmds = <<>> THEN rk ELSE Command(rk, Head(cmds), t)

\* `await pipe.execute()` on a pipeline of `self._redis.pipeline()`, a
\* transaction: the server runs the queued commands as one MULTI/EXEC block.
Pipeline_execute(rk, cmds, t) == Commands(rk, cmds, t)

\* The commands each operation queues.
MetaCmds(kp, key, state, created_at, ttl, t) ==
    <<Cmd("hset", Redis_get_key(kp, META_PREFIX, key),
          RedisMetaMapping(state, created_at, ttl, t))>>
    \o (IF ttl # NoneTime /\ ttl # 0
        THEN <<Cmd("expire", Redis_get_key(kp, META_PREFIX, key), ttl)>> ELSE <<>>)

DataCmds(kp, data, key, ttl) ==
    IF data # EmptyDict
    THEN <<Cmd("set", Redis_get_key(kp, DATA_PREFIX, key), JsonDumps(data))>>
         \o (IF ttl # NoneTime /\ ttl # 0
             THEN <<Cmd("expire", Redis_get_key(kp, DATA_PREFIX, key), ttl)>> ELSE <<>>)
    ELSE <<Cmd("delete", Redis_get_key(kp, DATA_PREFIX, key), <<>>)>>

FinishCmds(kp, key) ==
    <<Cmd("delete", Redis_get_key(kp, META_PREFIX, key), <<>>),
      Cmd("delete", Redis_get_key(kp, DATA_PREFIX, key), <<>>)>>

\* A call in progress: where it stands (at), which pipeline it is working
\* on (part: "meta" in _set_state_meta, "data" in set_data, "finish"), the
\* pipelines it has opened, and its locals.
Frame(at, op, key, arg, part) ==
    [at |-> at, op |-> op, key |-> key, arg |-> arg, part |-> part,
     pipes |-> <<>>, created_at |-> <<>>, state |-> arg.state,
     replies |-> <<>>, res |-> Return(None)]

\* A pipeline as pipeline() returns it.
NewPipe == [cmds |-> <<>>, reset |-> FALSE]

\* The call ends with result res.
Finished(f, res) ==
    [f EXCEPT !.at = "done", !.res = res, !.part = "", !.created_at = <<>>,
              !.state = NoneStr]

\* The pipeline the call is working on, changed.
WithPipe(f, p) == [f EXCEPT !.pipes = [f.pipes EXCEPT ![Len(f.pipes)] = p]]
Pipe(f) == f.pipes[Len(f.pipes)]

PipeStep(t, to, rk) ==
    /\ backend = "redis"
    /\ pc' = [pc EXCEPT ![t] = to]
    /\ redis' = rk
    /\ UNCHANGED <<backend, now, storage, mem_lock, key_prefix, mongo, last, handle,
                   mm, pool, helpers, disp>>

\* set_state(state, key, ttl): `await self._set_state_meta(key, state, ttl)`
Pipe_set_state(t, state, key, ttl) ==
    /\ pc[t].at = "idle"
    /\ PipeStep(t, Frame("hget", "set_state", key,
                         [state |-> state, data |-> EmptyDict, ttl |-> ttl], "meta"),
                redis)

\* set_data(data, key, ttl), past its validation
Pipe_set_data(t, data, key, ttl) ==
    /\ pc[t].at = "idle"
    /\ PipeStep(t, Frame("pipeline", "set_data", key,
                         [state |-> NoneStr, data |-> data, ttl |-> ttl], "data"),
                redis)

\* finish_state(key)
Pipe_finish_state(t, key) ==
    /\ pc[t].at = "idle"
    /\ PipeStep(t, Frame("pipeline", "finish_state", key,
                         [state |-> NoneStr, data |-> EmptyDict, ttl |-> NoneTime],
                         "finish"),
                redis)

\* _set_state_meta: `created_at = await self._redis.hget(meta_key, 'created_at')`
Pipe_hget(t, fault) ==
    /\ pc[t].at = "hget"
    /\ PipeStep(t,
                IF fault THEN Finished(pc[t], Raise("StorageError"))
                ELSE [pc[t] EXCEPT
                         !.at = "pipeline",
                         !.created_at = HGET(redis,
                                             Redis_get_key(key_prefix, META_PREFIX,
                                                           pc[t].key),
                                             "created_at")],
                redis)

\* `pipe = await self._redis.pipeline()`
Pipe_pipeline(t) ==
    /\ pc[t].at = "pipeline"
    /\ PipeStep(t, [pc[t] EXCEPT !.at = "queue", !.pipes = Append(@, NewPipe)], redis)

\* `pipe.hset(...)`, `pipe.set(...)`, `pipe.expire(...)`, `pipe.delete(...)`:
\* the commands are queued on the client.  When one of them raises,
\* _set_state_meta and finish_state go through their `finally`, set_data
\* goes to its `except RedisError`.
Pipe_queue(t, fault) ==
    /\ pc[t].at = "queue"
    /\ LET f == pc[t]
           cmds == CASE f.part = "meta" ->
                            MetaCmds(key_prefix, f.key, f.state, f.created_at,
                                     f.arg.ttl, now)
                     [] f.part = "data" ->
                            DataCmds(key_prefix, f.arg.data, f.key, f.arg.ttl)
                     [] OTHER -> FinishCmds(key_prefix, f.key)
       IN  PipeStep(t,
                    IF fault
                    THEN (IF f.part = "data" THEN Finished(f, Raise("StorageError"))
                          ELSE [f EXCEPT !.at = "reset", !.res = Raise("StorageError")])
                    ELSE [WithPipe(f, [Pipe(f) EXCEPT !.cmds = cmds])
                             EXCEPT !.at = "execute"],
                    redis)

\* `await pipe.execute()`.  The client's execute() may or may not release
\* the pipeline itself (releases).
Pipe_execute(t, fault, releases) ==
    /\ pc[t].at = "execute"
    /\ LET f == WithPipe(pc[t], [Pipe(pc[t]) EXCEPT !.reset = releases])
           res == IF fault THEN Raise("StorageError") ELSE Return(None)
           g == [f EXCEPT !.replies = IF fault THEN <<>>
                                      ELSE Replies(redis, Pipe(f).cmds, now)]
       IN  PipeStep(t,
                    IF f.part = "data"
                    THEN (IF fault \/ f.arg.ttl = NoneTime THEN Finished(g, res)
                          ELSE [g EXCEPT !.at = "hgetall"])
                    ELSE [g EXCEPT !.at = "reset", !.res = res],
                    IF fault THEN redis
                    ELSE Pipeline_execute(redis, Pipe(f).cmds, now))

\* `finally: await pipe.reset()` of _set_state_meta and finish_state
Pipe_reset(t) ==
    /\ pc[t].at = "reset"
    /\ PipeStep(t, Finished(WithPipe(pc[t], [Pipe(pc[t]) EXCEPT !.reset = TRUE]),
                            pc[t].res),
                redis)

\* set_data with a ttl: `(await self._get_state_meta(key))[0]`
Pipe_hgetall(t, fault) ==
    /\ pc[t].at = "hgetall"
    /\ LET meta == Redis_get_state_meta(redis, key_prefix, pc[t].key)
       IN  PipeStep(t,
                    IF fault THEN Finished(pc[t], Raise("StorageError"))
                    ELSE IF meta.out = "raise" THEN Finished(pc[t], meta)
                    ELSE [pc[t] EXCEPT !.at = "hget", !.part = "meta",
                                       !.state = meta.val[1]],
                    redis)

\* The caller has the result.
Pipe_return(t) ==
    /\ pc[t].at = "done"
    /\ PipeStep(t, Idle, redis)

\* The task is cancelled, or its process dies, between two awaits.
Pipe_crash(t) ==
    /\ pc[t].at \notin {"idle", "done"}
    /\ PipeStep(t, Idle, redis)

PipeKeys == {<<"k1">>}
PipeData == {EmptyDict, "f" :> 1}

NextPipe ==
    \E t \in Tasks :
        \/ \E key \in PipeKeys, ttl \in FaultTTLs : Pipe_set_state(t, "a", key, ttl)
        \/ \E key \in PipeKeys, data \in PipeData, ttl \in FaultTTLs :
              Pipe_set_data(t, data, key, ttl)
        \/ \E key \in PipeKeys : Pipe_finish_state(t, key)
        \/ \E fault \in BOOLEAN : Pipe_hget(t, fault)
        \/ Pipe_pipeline(t)
        \/ \E fault \in BOOLEAN : Pipe_queue(t, fault)
        \/ \E fault \in BOOLEAN, releases \in BOOLEAN : Pipe_execute(t, fault, releases)
        \/ Pipe_reset(t)
        \/ \E fault \in BOOLEAN : Pipe_hgetall(t, fault)
        \/ Pipe_return(t)
        \/ Pipe_crash(t)

InitPipe ==
    /\ Init
    /\ backend = "redis"
    /\ key_prefix = <<>>

SpecPipe == InitPipe /\ [][NextPipe]_vars

(***************************************************************************)
(* Claim C32                                                               *)
(***************************************************************************)
\* C32: no step of a finish_state call (queueing, execute, reset, a crash
\* or a cancellation between them) leaves the keyspace with only one of
\* the two keys of the record deleted: each step either leaves the
\* keyspace as it was or leaves neither the metadata key nor the data key.
C32_FinishAtomic ==
    [][\A t \in Tasks :
          (pc[t].at # "idle" /\ pc[t].op = "finish_state" /\ pc'[t] # pc[t])
          => \/ redis' = redis
             \/ /\ MetaKey(pc[t].key) \notin DOMAIN redis'
                /\ DataKey(pc[t].key) \notin DOMAIN redis']_vars

\* A finish_state has returned whose pipeline deleted both keys of a
\* record.
C32_Witness ==
    \E t \in Tasks :
        /\ pc[t].at = "done"
        /\ pc[t].op = "finish_state"
        /\ pc[t].res.out = "return"
        /\ pc[t].replies = <<1, 1>>
        /\ \A i \in DOMAIN pc[t].pipes : pc[t].pipes[i].reset

(***************************************************************************)
(* Claim C33                                                               *)
(***************************************************************************)
\* C33: when a set_state, set_data or finish_state call of the Redis
\* backend has returned or raised, every pipeline the call opened has been
\* reset.
C33_PipelineRelease ==
    \A t \in Tasks :
        pc[t].at = "done" => \A i \in DOMAIN pc[t].pipes : pc[t].pipes[i].reset

(***************************************************************************)
(* The document store with documents that outlive their expiry: the TTL    *)
(* monitor of the server removes an expired document some time after its   *)
(* expires_at, not at it.                                                  *)
(***************************************************************************)
\* A document of the layout get_or_create_state inserts, written by a
\* process that shares the collection.
Mongo_insert_one(key, state, ttl) ==
    /\ key \notin DOMAIN mongo
    /\ MongoStep("insert_one", key, [state |-> state, ttl |-> ttl],
                 MongoRes(Return(None),
                          Put(mongo, key,
                              [key |-> key, state |-> state, data |-> EmptyDict,
                               created_at |-> now, updated_at |-> now,
                               expires_at |-> IF ttl # NoneTime THEN now + ttl
                                              ELSE NoneTime])))

\* The server's TTL monitor (index on expires_at, expireAfterSeconds=0)
\* removes a document whose expires_at is reached.
Mongo_ttl_monitor(key) ==
    /\ key \in DOMAIN mongo
    /\ Mem_expired(mongo[key], now)
    /\ MongoStep("ttl_monitor", key, None, MongoRes(Return(None), Remove(mongo, key)))

InitLag ==
    /\ Init
    /\ backend = "mongo"

NextLag ==
    \/ Tick
    \/ \E key \in Keys, state \in {"a"}, ttl \in TTLArgs : Mongo_insert_one(key, state, ttl)
    \/ \E key \in Keys : Mongo_ttl_monitor(key)
    \/ \E key \in Keys, ds \in DefaultStateArgs, ttl \in TTLArgs :
          MongoStorage_get_or_create_state(key, ds, ttl)
    \/ \E key \in Keys : MongoStorage_get_data(key)
    \/ \E key \in Keys : MongoStorage_get_state_data(key)
    \/ \E key \in Keys : MongoStorage_finish_state(key)
    \/ \E state \in ListStateArgs, created_before \in CreatedBeforeArgs :
          MongoStorage_list_states(state, created_before)

SpecLag == InitLag /\ [][NextLag]_vars

(***************************************************************************)
(* Claim C34                                                               *)
(***************************************************************************)
\* The document stored for k has its expires_at in the past.
Lagging(k) ==
    /\ k \in DOMAIN mongo
    /\ mongo[k].expires_at # NoneTime
    /\ mongo[k].expires_at < now

\* C34: while the collection still holds a document of key k whose
\* expires_at is in the past, get_state_data(k) raises StateNotFoundError,
\* get_data(k) returns {}, get_or_create_state(k) returns the handle of a
\* fresh record created now, and list_states does not yield k.
C34_LaggingExpiry ==
    [][\A k \in Keys :
          (backend = "mongo" /\ Lagging(k))
          => /\ MongoStorage_get_state_data(k) =>
                    last'.out = "raise" /\ last'.exc = "StateNotFoundError"
             /\ MongoStorage_get_data(k) =>
                    last'.out = "return" /\ last'.val = EmptyDict
             /\ \A ds \in DefaultStateArgs, ttl \in TTLArgs :
                    MongoStorage_get_or_create_state(k, ds, ttl) =>
                        /\ last'.out = "return"
                        /\ last'.val = State(IF ds = NoneStr THEN "*" ELSE ds, k)
                        /\ k \in DOMAIN mongo'
                        /\ mongo'[k].created_at = now
                        /\ mongo'[k].data = EmptyDict
             /\ \A state \in ListStateArgs, created_before \in CreatedBeforeArgs :
                    MongoStorage_list_states(state, created_before) =>
                        k \notin last'.val.keys]_vars

(***************************************************************************)
(* Claim C35                                                               *)
(***************************************************************************)
MemoryOps == {"get_or_create_state", "get_data", "get_state_data", "list_states",
              "cleanup_expired", "set_data", "finish_state"}

\* C35: every call of a MemoryStorage operation has returned or raised and
\* has left the backend's lock released; none is left waiting for the lock
\* its own task holds.
C35_MemoryProgress ==
    (backend = "memory" /\ last.op \in MemoryOps)
    => (last.out \in {"return", "raise"} /\ mem_lock = "free")

(***************************************************************************)
(* Claim C36                                                               *)
(***************************************************************************)
\* The keys the applications of the specifications write to.
WrittenKeys == Keys \cup {FSMContext_get_key(update) : update \in Updates}

\* C36: a set_state, set_data or update_data call that returns on a key
\* whose stored record has expired leaves a record created now, which has
\* neither the state nor the data of the expired record: after set_state
\* the data is empty, after set_data the state is the "no state" marker
\* "*", after update_data the data is the mapping passed.
C36_NoResurrection ==
    [][\A k \in WrittenKeys :
          (/\ StoredExpired(k)
           /\ last'.op \in {"set_state", "set_data", "ctx_update_data"}
           /\ last'.key = k
           /\ last'.out = "return")
          => /\ StoredRecords(k)' # {}
             /\ \A rec \in StoredRecords(k)' :
                   /\ rec.created_at = now
                   /\ last'.op = "set_state" => rec.data = EmptyDict
                   /\ last'.op = "set_data" => rec.state = "*"
                   /\ last'.op = "ctx_update_data" => rec.data = last'.arg.data.items]_vars

(***************************************************************************)
(* Claim C37                                                               *)
(***************************************************************************)
\* The call in `last` is a write that passes no ttl: set_state or set_data
\* of a backend with ttl None, or FSMContext's set_state, set_data or
\* update_data, which have no ttl parameter.
WriteWithoutTTL(c) ==
    \/ c.op \in {"set_state", "set_data"} /\ c.arg.ttl = NoneTime
    \/ c.op \in {"ctx_set_state", "ctx_set_data", "ctx_update_data"}
       /\ c.arg # None /\ (c.op = "ctx_set_state" => c.arg.state # NoneStr)

\* C37: a write without a ttl that returns on a key whose live record has
\* an expires_at leaves a record with the same expires_at.
C37_ExpiryPreserved ==
    [][\A k \in WrittenKeys :
          (WriteWithoutTTL(last') /\ last'.key = k /\ last'.out = "return")
          => \A old \in LiveRecords(k) :
                old.expires_at # NoneTime
                => /\ LiveRecords(k)' # {}
                   /\ \A new \in LiveRecords(k)' : new.expires_at = old.expires_at]_vars

(***************************************************************************)
(* Claim C38                                                               *)
(***************************************************************************)
\* C38: a set_state, set_data or get_or_create_state call that raises
\* leaves everything the stores hold for its key as it was before the
\* call.
C38_FailureAtomic ==
    [][\A k \in Keys :
          (/\ last'.op \in {"set_state", "set_data", "get_or_create_state"}
           /\ last'.key = k
           /\ last'.out = "raise")
          => EntriesOf(k)' = EntriesOf(k)]_vars

(***************************************************************************)
(* PatchedDispatcher.start, stop and _worker                               *)
(*   updates_queue is the unbounded asyncio.Queue of pyrogram's            *)
(*   Dispatcher: put() never waits, get() waits while the queue is empty.  *)
(***************************************************************************)
\* `for _ in range(5)`
WORKERS == 5
\* The longest updates_queue, and the largest number of worker tasks.
MaxQueue == 6

\* A packet (update, users, chats), and the shutdown signal None.
Packet == "packet"
Shutdown == "None"

\* len(self._tasks)
Alive(d) == d.tasks["new"] + d.tasks["get"] + d.tasks["process"]

\* One task of _tasks moves from one point of _worker to another, or ends
\* (to = "done").
Moved(tasks, from, to) ==
    [at \in DOMAIN tasks |->
        IF at = from THEN tasks[at] - 1
        ELSE IF at = to THEN tasks[at] + 1
        ELSE tasks[at]]

\* n times None
RECURSIVE Signals(_)
Signals(n) == IF n = 0 THEN <<>> ELSE <<Shutdown>> \o Signals(n - 1)

DispStep(op, res, d) ==
    /\ disp' = d
    /\ last' = Call(op, <<>>, None, res)
    /\ UNCHANGED <<backend, now, storage, mem_lock, key_prefix, redis, mongo, pc,
                   handle, mm, pool, helpers>>

\* start(): nothing when running; else five worker tasks are created.
Disp_start(d) ==
    IF d.is_running THEN d
    ELSE [d EXCEPT !.is_running = TRUE, !.tasks["new"] = @ + WORKERS]

\* stop() up to `await asyncio.wait(self._tasks)`: nothing when not
\* running; else one None per task of _tasks is put on the queue.
Disp_stop(d) ==
    IF ~d.is_running THEN d
    ELSE [d EXCEPT !.is_running = FALSE,
                   !.updates_queue = @ \o Signals(Alive(d)),
                   !.stop = IF Alive(d) > 0 THEN "wait" ELSE "idle"]

\* The caller's start() and stop() follow one another: no start() while a
\* stop() is waiting for the tasks.
PatchedDispatcher_start ==
    /\ disp.stop = "idle"
    /\ Alive(disp) + WORKERS <= MaxQueue
    /\ DispStep("start", Return([launched |-> Alive(Disp_start(disp)) - Alive(disp)]),
                Disp_start(disp))

PatchedDispatcher_stop ==
    /\ disp.stop = "idle"
    /\ Len(disp.updates_queue) + Alive(disp) <= MaxQueue
    /\ DispStep("stop", Return(None), Disp_stop(disp))

\* `await asyncio.wait(self._tasks)` returns once every task has ended.
PatchedDispatcher_stop_return ==
    /\ disp.stop = "wait"
    /\ Alive(disp) = 0
    /\ DispStep("stop_return", Return(None), [disp EXCEPT !.stop = "idle"])

\* A worker task runs for the first time, or comes back from
\* _process_packet: `while self._is_running`.
Worker_loop(from) ==
    /\ from \in {"new", "process"}
    /\ disp.tasks[from] > 0
    /\ DispStep("worker_loop", Return(None),
                [disp EXCEPT !.tasks = Moved(@, from,
                                             IF disp.is_running THEN "get" ELSE "done")])

\* `packet = await self.updates_queue.get()`; `if packet is None: break`
Worker_get ==
    /\ disp.tasks["get"] > 0
    /\ disp.updates_queue # <<>>
    /\ DispStep("worker_get", Return([packet |-> Head(disp.updates_queue)]),
                [disp EXCEPT !.updates_queue = Tail(@),
                             !.tasks = Moved(@, "get",
                                             IF Head(disp.updates_queue) = Shutdown
                                             THEN "done" ELSE "process")])

\* pyrogram puts a packet on updates_queue.
Client_put ==
    /\ Len(disp.updates_queue) < MaxQueue
    /\ DispStep("put", Return(None),
                [disp EXCEPT !.updates_queue = Append(@, Packet)])

NextWorkers ==
    \/ PatchedDispatcher_start
    \/ PatchedDispatcher_stop
    \/ PatchedDispatcher_stop_return
    \/ \E from \in {"new", "process"} : Worker_loop(from)
    \/ Worker_get
    \/ Client_put

SpecWorkers == InitApp /\ [][NextWorkers]_vars

(***************************************************************************)
(* Claim C39                                                               *)
(***************************************************************************)
\* C39: start() on a stopped dispatcher launches exactly five worker tasks
\* and start() on a running one none; when stop() returns no worker task
\* is left, and none takes a packet until the next start(); and while the
\* dispatcher is running and no stop() is in progress, five worker tasks
\* are alive, also after an earlier stop().
C39_StartStop ==
    [][/\ PatchedDispatcher_start =>
              last'.val.launched = IF disp.is_running THEN 0 ELSE WORKERS
       /\ (PatchedDispatcher_stop_return \/ (PatchedDispatcher_stop /\ disp'.stop = "idle"))
              => Alive(disp') = 0
       /\ (~disp.is_running /\ disp.stop = "idle") => ~Worker_get
       /\ (disp'.is_running /\ disp'.stop = "idle") => Alive(disp') = WORKERS]_vars

(***************************************************************************)
(* Claim C40                                                               *)
(***************************************************************************)
\* The list without the middleware m.
Without(list, m) == SelectSeq(list, LAMBDA e : e # m)

\* C40: after register(handler_type, m) the list of the handler type holds
\* no two middlewares of one class, and is the old list, with m appended
\* when its class was not in it; unregister(handler_type, m) leaves the
\* list of the handler type without m and with every other middleware in
\* place and in order (the list as it was when m is not in it); neither
\* changes the list of another handler type.
C40_Registry ==
    [][\A handler_type \in HandlerTypes, m \in Middlewares :
          LET list == ListOf(mm, handler_type)
              list_ == ListOf(mm', handler_type)
          IN  /\ MiddlewareManager_register(handler_type, m) =>
                    /\ \A i, j \in DOMAIN list_ :
                          list_[i].class = list_[j].class => i = j
                    /\ list_ = IF \E i \in DOMAIN list : list[i].class = m.class
                               THEN list ELSE Append(list, m)
              /\ MiddlewareManager_unregister(handler_type, m) =>
                    list_ = Without(list, m)
              /\ (MiddlewareManager_register(handler_type, m)
                  \/ MiddlewareManager_unregister(handler_type, m))
                 => \A other \in HandlerTypes \ {handler_type} :
                       ListOf(mm', other) = ListOf(mm, other)]_vars

====
